---- MODULE Spec2Model ----
(***************************************************************************)
(* A model of the query-understanding core of github-repo-analyzer:        *)
(* QueryParser (src/src/query_parser.py), the part of                      *)
(* GitHubAnalysisAgent.process_query (src/src/ai_agent.py) that calls it,  *)
(* and GitHubRepositoryTool (src/src/github_tool.py): its request loop,    *)
(* its cache and the fallbacks of its public methods.                      *)
(*                                                                         *)
(* Queries are character strings.  The regular expressions of the parser   *)
(* are modelled by what they match on such strings (word boundaries, runs  *)
(* of \w, \s and \d characters, leftmost match), the substring tests by    *)
(* substring search.                                                       *)
(*                                                                         *)
(* Confidence is a Python float built from the literals 0.3 .. 0.9 and     *)
(* additions of 0.1; the model keeps it as an integer number of hundredths.*)
(* The float sums differ from the exact value by less than 1e-15, and on   *)
(* every path of parse_query the comparisons the code and the properties   *)
(* make (< 0.5, > 0.6, <= 1.0, >= 0.7) give the same answer on the float   *)
(* as on the exact value.                                                  *)
(***************************************************************************)
EXTENDS Integers, Sequences, FiniteSets, TLC

\* ------------------------------------------------------------ characters

Ch(s, i) == SubSeq(s, i, i)

LowerLetters ==
  {"a","b","c","d","e","f","g","h","i","j","k","l","m",
   "n","o","p","q","r","s","t","u","v","w","x","y","z"}

UpperSeq ==
  <<"A","B","C","D","E","F","G","H","I","J","K","L","M",
    "N","O","P","Q","R","S","T","U","V","W","X","Y","Z">>

LowerSeq ==
  <<"a","b","c","d","e","f","g","h","i","j","k","l","m",
    "n","o","p","q","r","s","t","u","v","w","x","y","z">>

UpperLetters == {UpperSeq[i] : i \in 1..26}

DigitSeq == <<"0","1","2","3","4","5","6","7","8","9">>

Digits == {DigitSeq[i] : i \in 1..10}

\* str.isspace / \s
IsSpaceCh(c) == c \in {" ", "\n", "\t"}

\* \w
IsWordCh(c) == c \in LowerLetters \cup UpperLetters \cup Digits \cup {"_"}

\* \d
IsDigitCh(c) == c \in Digits

LowerCh(c) ==
  IF c \in UpperLetters
  THEN LowerSeq[CHOOSE i \in 1..26 : UpperSeq[i] = c]
  ELSE c

UpperCh(c) ==
  IF c \in LowerLetters
  THEN UpperSeq[CHOOSE i \in 1..26 : LowerSeq[i] = c]
  ELSE c

\* str.lower(), character by character
RECURSIVE Lower(_)
Lower(s) ==
  IF Len(s) = 0 THEN ""
  ELSE IF Len(s) = 1 THEN LowerCh(s)
  ELSE LET h == Len(s) \div 2
       IN Lower(SubSeq(s, 1, h)) \o Lower(SubSeq(s, h + 1, Len(s)))

\* str.strip()
Strip(s) ==
  IF \A i \in 1..Len(s) : IsSpaceCh(Ch(s, i)) THEN ""
  ELSE LET a == CHOOSE i \in 1..Len(s) :
                  /\ ~IsSpaceCh(Ch(s, i))
                  /\ \A j \in 1..(i - 1) : IsSpaceCh(Ch(s, j))
           b == CHOOSE i \in 1..Len(s) :
                  /\ ~IsSpaceCh(Ch(s, i))
                  /\ \A j \in (i + 1)..Len(s) : IsSpaceCh(Ch(s, j))
       IN SubSeq(s, a, b)

\* the last index of the whitespace-free run that starts at i
TokenEnd(s, i) ==
  CHOOSE j \in i..Len(s) :
    /\ j = Len(s) \/ IsSpaceCh(Ch(s, j + 1))
    /\ \A k \in i..j : ~IsSpaceCh(Ch(s, k))

TokenStarts(s) ==
  {i \in 1..Len(s) : /\ ~IsSpaceCh(Ch(s, i))
                     /\ i = 1 \/ IsSpaceCh(Ch(s, i - 1))}

\* set(s.split())
SplitSet(s) == {SubSeq(s, i, TokenEnd(s, i)) : i \in TokenStarts(s)}

\* s.split(), in order
RECURSIVE SplitFrom(_, _)
SplitFrom(s, i) ==
  IF i > Len(s) THEN <<>>
  ELSE IF IsSpaceCh(Ch(s, i)) THEN SplitFrom(s, i + 1)
  ELSE LET e == TokenEnd(s, i)
       IN <<SubSeq(s, i, e)>> \o SplitFrom(s, e + 1)

\* word.strip(chars)
RECURSIVE StripChars(_, _)
StripChars(w, chars) ==
  IF Len(w) = 0 THEN w
  ELSE IF Ch(w, 1) \in chars THEN StripChars(SubSeq(w, 2, Len(w)), chars)
  ELSE IF Ch(w, Len(w)) \in chars THEN StripChars(SubSeq(w, 1, Len(w) - 1), chars)
  ELSE w

\* ------------------------------------------------------ pattern matching

\* lit occurs in s at index i
LitAt(s, lit, i) ==
  /\ i >= 1
  /\ i + Len(lit) - 1 <= Len(s)
  /\ SubSeq(s, i, i + Len(lit) - 1) = lit

\* `lit in s`
Contains(s, lit) == \E i \in 1..(Len(s) - Len(lit) + 1) : LitAt(s, lit, i)

WordChAt(s, i) == i >= 1 /\ i <= Len(s) /\ IsWordCh(Ch(s, i))

SpaceChAt(s, i) == i >= 1 /\ i <= Len(s) /\ IsSpaceCh(Ch(s, i))

\* \b between the characters i-1 and i
Boundary(s, i) == WordChAt(s, i - 1) # WordChAt(s, i)

\* \blit\b matches at i
WholeAt(s, lit, i) ==
  LitAt(s, lit, i) /\ Boundary(s, i) /\ Boundary(s, i + Len(lit))

\* re.search(r'\b' + re.escape(lit) + r'\b', s)
SearchWhole(s, lit) == \E i \in 1..Len(s) : WholeAt(s, lit, i)

\* the last index of the run of \w characters that starts at i
WordRunEnd(s, i) ==
  CHOOSE j \in i..Len(s) :
    /\ ~WordChAt(s, j + 1)
    /\ \A k \in i..j : IsWordCh(Ch(s, k))

\* the last index of the run of \s characters that starts at i
SpaceRunEnd(s, i) ==
  CHOOSE j \in i..Len(s) :
    /\ ~SpaceChAt(s, j + 1)
    /\ \A k \in i..j : IsSpaceCh(Ch(s, k))

\* the last index of the run of \d characters that starts at i
DigitRunEnd(s, i) ==
  CHOOSE j \in i..Len(s) :
    /\ j = Len(s) \/ ~IsDigitCh(Ch(s, j + 1))
    /\ \A k \in i..j : IsDigitCh(Ch(s, k))

\* re.findall(r'\d+', s)[0], or "" when the list is empty
FirstNumber(s) ==
  IF \A i \in 1..Len(s) : ~IsDigitCh(Ch(s, i)) THEN ""
  ELSE LET a == CHOOSE i \in 1..Len(s) :
                  /\ IsDigitCh(Ch(s, i))
                  /\ \A j \in 1..(i - 1) : ~IsDigitCh(Ch(s, j))
       IN SubSeq(s, a, DigitRunEnd(s, a))

DigitValue(c) == (CHOOSE i \in 1..10 : DigitSeq[i] = c) - 1

\* the value of a decimal numeral
RECURSIVE DecimalValue(_)
DecimalValue(d) ==
  IF Len(d) = 0 THEN 0
  ELSE 10 * DecimalValue(SubSeq(d, 1, Len(d) - 1)) + DigitValue(Ch(d, Len(d)))

\* ------------------------------------------------------- the vocabulary

None == "<None>"

RANKING == "ranking"

COMPARISON == "comparison"

TRENDING == "trending"

SEARCH == "search"

UNKNOWN == "unknown"

QueryIntent == {RANKING, COMPARISON, TRENDING, SEARCH, UNKNOWN}

\* QueryParser.programming_languages, in the order of the set literal
LanguageList ==
  <<"python", "javascript", "java", "typescript", "go", "rust", "c++", "c#",
    "php", "ruby", "swift", "kotlin", "scala", "r", "matlab", "shell",
    "html", "css", "sql", "dart", "lua", "perl", "haskell", "clojure",
    "js", "ts", "cpp", "c", "objective-c", "vue", "react", "angular">>

\* QueryParser.project_types, in the order of the set literal
ProjectTypeList ==
  <<"framework", "frameworks", "library", "libraries", "tool", "tools",
    "package", "packages", "module", "modules", "plugin", "plugins",
    "extension", "extensions", "sdk", "api", "service", "app", "application">>

ranking_keywords == {"top", "best", "most", "popular", "starred", "forked"}

comparison_keywords ==
  {"vs", "versus", "compare", "comparison", "difference", "better"}

trending_keywords == {"trending", "hot", "rising", "popular", "recent"}

search_keywords ==
  {"find", "show", "search", "get", "about", "projects", "repositories"}

tech_words ==
  {"framework", "frameworks", "library", "libraries", "tool", "tools",
   "microservice", "microservices", "api", "web", "database", "testing",
   "machine", "learning", "docker", "kubernetes"}

\* sys.get_int_max_str_digits(): int() of a longer numeral raises ValueError
IntMaxStrDigits == 4300

DefaultLimit == 20

MaxLimit == 50

\* ------------------------------------------------- comparison extraction

NoMatch == <<>>

\* The patterns share one shape:
\*   [prefix \s+] (\w+) \s+ (?:alt|...) \s+ (\w+)
comparison_patterns ==
  << [prefix |-> "",        alts |-> <<"vs", "versus">>],
     [prefix |-> "",        alts |-> <<"and", "with">>],
     [prefix |-> "",        alts |-> <<"or">>],
     [prefix |-> "compare", alts |-> <<"and", "with", "to">>],
     [prefix |-> "between", alts |-> <<"and">>] >>

\* the first alternative, in the order written, with which the rest of the
\* pattern matches at index i: alt \s+ \w
RECURSIVE AltAt(_, _, _, _)
AltAt(s, alts, k, i) ==
  IF k > Len(alts) THEN 0
  ELSE IF /\ LitAt(s, alts[k], i)
          /\ SpaceChAt(s, i + Len(alts[k]))
          /\ WordChAt(s, SpaceRunEnd(s, i + Len(alts[k])) + 1)
       THEN k
       ELSE AltAt(s, alts, k + 1, i)

\* the two groups of the match of pat that starts at index i, or NoMatch
MatchAt(s, pat, i) ==
  LET n == Len(pat.prefix)
      okPrefix == \/ n = 0
                  \/ LitAt(s, pat.prefix, i) /\ SpaceChAt(s, i + n)
      g1 == IF n = 0 THEN i
            ELSE IF okPrefix THEN SpaceRunEnd(s, i + n) + 1 ELSE 0
  IN IF ~okPrefix \/ ~WordChAt(s, g1) THEN NoMatch
     ELSE LET e1 == WordRunEnd(s, g1)
          IN IF ~SpaceChAt(s, e1 + 1) THEN NoMatch
             ELSE LET a == SpaceRunEnd(s, e1 + 1) + 1
                      k == AltAt(s, pat.alts, 1, a)
                  IN IF k = 0 THEN NoMatch
                     ELSE LET g2 == SpaceRunEnd(s, a + Len(pat.alts[k])) + 1
                          IN << SubSeq(s, g1, e1),
                                SubSeq(s, g2, WordRunEnd(s, g2)) >>

\* re.search(pattern, s): the leftmost match
RECURSIVE SearchFrom(_, _, _)
SearchFrom(s, pat, i) ==
  IF i > Len(s) THEN NoMatch
  ELSE LET m == MatchAt(s, pat, i)
       IN IF m # NoMatch THEN m ELSE SearchFrom(s, pat, i + 1)

PatternSearch(s, pat) == SearchFrom(s, pat, 1)

\* re.search(r'\b(vs|versus)\b', s)
HasVersus(s) == SearchWhole(s, "vs") \/ SearchWhole(s, "versus")

\* re.search(r'compare.*\b(and|with)\b', s): '.' matches no newline
HasCompareAnd(s) ==
  \E i \in 1..Len(s) :
    /\ LitAt(s, "compare", i)
    /\ \E j \in (i + 7)..Len(s) :
         /\ WholeAt(s, "and", j) \/ WholeAt(s, "with", j)
         /\ \A k \in (i + 7)..(j - 1) : Ch(s, k) # "\n"

RECURSIVE PatternLoopNoBreak(_, _)
\* the loop without its break: every pattern that matches adds 1 and the
\* last one sets the groups
PatternLoopNoBreak(s, k) ==
  IF k > Len(comparison_patterns)
  THEN [matched |-> 0, groups |-> NoMatch, bonus |-> 0]
  ELSE LET m    == PatternSearch(s, comparison_patterns[k])
           rest == PatternLoopNoBreak(s, k + 1)
       IN IF m = NoMatch THEN rest
          ELSE [ matched |-> IF rest.matched # 0 THEN rest.matched ELSE k,
                 groups  |-> IF rest.matched # 0 THEN rest.groups ELSE m,
                 bonus   |-> rest.bonus + 1 ]

RECURSIVE PatternLoopFirstGroup(_, _)
\* a loop that keeps only the first group of the match
PatternLoopFirstGroup(s, k) ==
  IF k > Len(comparison_patterns)
  THEN [matched |-> 0, groups |-> NoMatch, bonus |-> 0]
  ELSE LET m == PatternSearch(s, comparison_patterns[k])
       IN IF m # NoMatch
          THEN [matched |-> k, groups |-> <<m[1]>>, bonus |-> 1]
          ELSE PatternLoopFirstGroup(s, k + 1)

\* the loop over comparison_patterns with its break: the index of the
\* pattern that matched (0: none), its groups, and what the loop added to
\* comparison_score
RECURSIVE PatternLoop(_, _)
PatternLoop(s, k) ==
  IF k > Len(comparison_patterns)
  THEN [matched |-> 0, groups |-> NoMatch, bonus |-> 0]
  ELSE LET m == PatternSearch(s, comparison_patterns[k])
       IN IF m # NoMatch
          THEN [matched |-> k, groups |-> m, bonus |-> 1]
          ELSE PatternLoop(s, k + 1)

\* ---------------------------------------------------------- extraction

\* re.search(r'\b[Cc]\+\+\b', query)
HasCPlusPlus(query) == SearchWhole(query, "C++") \/ SearchWhole(query, "c++")

\* re.search(r'\b[Cc]( language| programming)\b', query)
HasCContext(query) ==
  \E c \in {"C", "c"} : \E t \in {" language", " programming"} :
    SearchWhole(query, c \o t)

\* a mapping that knows the alias cpp only
CanonicalLanguageCppOnly(lang) == IF lang = "cpp" THEN "c++" ELSE lang

\* the special cases of a multi-character language that matched
CanonicalLanguage(lang) ==
  IF lang = "js" THEN "javascript"
  ELSE IF lang = "ts" THEN "typescript"
  ELSE IF lang = "cpp" THEN "c++"
  ELSE lang

\* the language-specific keywords checked after the loop
LanguageKeywords(query) ==
  IF Contains(query, "node") \/ Contains(query, "npm") THEN "javascript"
  ELSE IF \/ Contains(query, "pip") \/ Contains(query, "django")
          \/ Contains(query, "flask") THEN "python"
  ELSE IF Contains(query, "gem") \/ Contains(query, "rails") THEN "ruby"
  ELSE IF Contains(query, "maven") \/ Contains(query, "gradle") THEN "java"
  ELSE None

\* the loop of _extract_language from the k-th language of the iteration
\* order langs on; folded is the query as re.IGNORECASE compares it
RECURSIVE LanguageLoop(_, _, _, _)
LanguageLoop(query, folded, langs, k) ==
  IF k > Len(langs) THEN LanguageKeywords(query)
  ELSE LET lang == langs[k]
       IN IF Len(lang) = 1
          THEN IF SearchWhole(query, UpperCh(lang)) \/ SearchWhole(query, lang)
               THEN IF lang = "c" /\ HasCPlusPlus(query) THEN "c++"
                    ELSE IF lang = "c" /\ ~HasCContext(query)
                         THEN LanguageLoop(query, folded, langs, k + 1)
                    ELSE lang
               ELSE LanguageLoop(query, folded, langs, k + 1)
          ELSE IF SearchWhole(folded, lang)
               THEN CanonicalLanguage(lang)
               ELSE LanguageLoop(query, folded, langs, k + 1)

_extract_language(query, langs) ==
  LanguageLoop(query, Lower(query), langs, 1)

EndsWithS(w) == Len(w) > 0 /\ Ch(w, Len(w)) = "s"

\* a singular made by cutting the final s, with no special cases
SingularByCut(project_type) ==
  IF EndsWithS(project_type)
  THEN SubSeq(project_type, 1, Len(project_type) - 1)
  ELSE project_type

Singular(project_type) ==
  IF EndsWithS(project_type)
  THEN IF project_type = "libraries" THEN "library"
       ELSE IF project_type = "frameworks" THEN "framework"
       ELSE SubSeq(project_type, 1, Len(project_type) - 1)
  ELSE project_type

RECURSIVE ProjectTypeLoop(_, _, _)
ProjectTypeLoop(query, types, k) ==
  IF k > Len(types) THEN None
  ELSE IF Contains(query, types[k]) THEN Singular(types[k])
  ELSE ProjectTypeLoop(query, types, k + 1)

_extract_project_type(query, types) == ProjectTypeLoop(query, types, 1)

EmptyDict == [k \in {} |-> 0]

Entry(key, value) == [k \in {key} |-> value]

\* an update that keeps the entries of old: setdefault in place of update
UpdateKeepingOld(old, new) == old @@ new

\* dict.update: the entries of new replace those of old
Update(old, new) == new @@ old

\* a chain that tests 'recent' first
TimeFilterRecentFirst(query) ==
  IF Contains(query, "recent") THEN Entry("days", 30)
  ELSE IF Contains(query, "this year") THEN Entry("days", 365)
  ELSE IF Contains(query, "this month") THEN Entry("days", 30)
  ELSE IF Contains(query, "this week") THEN Entry("days", 7)
  ELSE EmptyDict

TimeFilter(query) ==
  IF Contains(query, "this year") THEN Entry("days", 365)
  ELSE IF Contains(query, "this month") THEN Entry("days", 30)
  ELSE IF Contains(query, "this week") THEN Entry("days", 7)
  ELSE IF Contains(query, "recent") THEN Entry("days", 30)
  ELSE EmptyDict

\* a chain that tests 'active' first
ActivityFilterActiveFirst(query) ==
  IF Contains(query, "active") THEN Entry("min_stars", 10)
  ELSE IF Contains(query, "high activity") \/ Contains(query, "very active")
  THEN Entry("min_stars", 100)
  ELSE EmptyDict

ActivityFilter(query) ==
  IF Contains(query, "high activity") \/ Contains(query, "very active")
  THEN Entry("min_stars", 100)
  ELSE IF Contains(query, "active") THEN Entry("min_stars", 10)
  ELSE EmptyDict

SizeFilter(query) ==
  IF Contains(query, "small") THEN Entry("max_size", 1000)
  ELSE IF Contains(query, "large") THEN Entry("min_size", 10000)
  ELSE EmptyDict

_extract_filters(query) ==
  Update(Update(TimeFilter(query), ActivityFilter(query)), SizeFilter(query))

\* ----------------------------------------------------------- parse_query

Min2(a, b) == IF a <= b THEN a ELSE b

Max2(a, b) == IF a >= b THEN a ELSE b

\* an initial result whose limit is 10
InitialResultLimitTen(query) ==
  [ intent         |-> UNKNOWN,
    language       |-> None,
    project_type   |-> None,
    sort_by        |-> "stars",
    limit          |-> 10,
    repositories   |-> <<>>,
    filters        |-> EmptyDict,
    original_query |-> query,
    confidence     |-> 0 ]

\* the result structure parse_query starts from; confidence in hundredths
InitialResult(query) ==
  [ intent         |-> UNKNOWN,
    language       |-> None,
    project_type   |-> None,
    sort_by        |-> "stars",
    limit          |-> DefaultLimit,
    repositories   |-> <<>>,
    filters        |-> EmptyDict,
    original_query |-> query,
    confidence     |-> 0 ]

NoLocals ==
  [ranking |-> 0, comparison |-> 0, trending |-> 0, search |-> 0,
   matched |-> 0, base |-> 0]

\* int(numbers[0]) raises ValueError
IntRaises(numeral) == Len(numeral) > IntMaxStrDigits

\* min(int(numbers[0]), 50)
LimitOf(numeral) == Min2(DecimalValue(numeral), MaxLimit)

KeywordScore(query_words, keywords) == Cardinality(query_words \cap keywords)

\* +2 for the comparison indicators
IndicatorBoost(query_lower) ==
  IF HasVersus(query_lower) \/ HasCompareAnd(query_lower) THEN 2 ELSE 0

\* the four scores as they stand when the intent is determined
FinalScores(query_lower, numbers, bonus) ==
  LET query_words == SplitSet(query_lower)
  IN [ ranking    |-> KeywordScore(query_words, ranking_keywords)
                        + (IF numbers # "" THEN 1 ELSE 0),
       comparison |-> KeywordScore(query_words, comparison_keywords)
                        + IndicatorBoost(query_lower)
                        + bonus,
       trending   |-> KeywordScore(query_words, trending_keywords),
       search     |-> KeywordScore(query_words, search_keywords) ]

MaxScore(sc) ==
  Max2(Max2(sc.ranking, sc.comparison), Max2(sc.trending, sc.search))

\* a chain that tests the ranking score before the comparison score
ResolveIntentRankingFirst(sc) ==
  IF MaxScore(sc) = 0 THEN SEARCH
  ELSE IF sc.ranking = MaxScore(sc) THEN RANKING
  ELSE IF sc.comparison = MaxScore(sc) THEN COMPARISON
  ELSE IF sc.trending = MaxScore(sc) THEN TRENDING
  ELSE SEARCH

\* a chain that leaves the intent Unknown when all four scores are 0
ResolveIntentZeroUnknown(sc) ==
  IF MaxScore(sc) = 0 THEN UNKNOWN
  ELSE IF sc.comparison = MaxScore(sc) THEN COMPARISON
  ELSE IF sc.ranking = MaxScore(sc) THEN RANKING
  ELSE IF sc.trending = MaxScore(sc) THEN TRENDING
  ELSE SEARCH

\* the if/elif chain that determines the intent
ResolveIntent(sc) ==
  IF MaxScore(sc) = 0 THEN SEARCH
  ELSE IF sc.comparison = MaxScore(sc) THEN COMPARISON
  ELSE IF sc.ranking = MaxScore(sc) THEN RANKING
  ELSE IF sc.trending = MaxScore(sc) THEN TRENDING
  ELSE SEARCH

RECURSIVE CountTech(_, _)
CountTech(words, k) ==
  IF k > Len(words) THEN 0
  ELSE (IF StripChars(words[k], {".", ",", "!", "?"}) \in tech_words
        THEN 1 ELSE 0) + CountTech(words, k + 1)

\* len([word for word in query_lower.split() if word.strip('.,!?') in {...}])
TechWordCount(query_lower) == CountTech(SplitFrom(query_lower, 1), 1)

\* a chain whose ranking branch starts from 0.5 as the trending branch does
BaseConfidenceRankingLow(sc, query_lower, language) ==
  IF MaxScore(sc) = 0 THEN 30
  ELSE IF sc.comparison = MaxScore(sc) THEN Min2(90, 60 + sc.comparison * 10)
  ELSE IF sc.ranking = MaxScore(sc) THEN Min2(90, 50 + sc.ranking * 10)
  ELSE IF sc.trending = MaxScore(sc) THEN Min2(80, 50 + sc.trending * 10)
  ELSE LET has_language == language # None
           base_confidence == 40 + sc.search * 10
                                + TechWordCount(query_lower) * 10
                                + (IF has_language THEN 20 ELSE 0)
       IN Min2(80, base_confidence)

\* the confidence each branch of the chain sets, in hundredths; language is
\* result['language'] as it stands there
BaseConfidence(sc, query_lower, language) ==
  IF MaxScore(sc) = 0 THEN 30
  ELSE IF sc.comparison = MaxScore(sc) THEN Min2(90, 60 + sc.comparison * 10)
  ELSE IF sc.ranking = MaxScore(sc) THEN Min2(90, 60 + sc.ranking * 10)
  ELSE IF sc.trending = MaxScore(sc) THEN Min2(80, 50 + sc.trending * 10)
  ELSE LET has_language == language # None
           base_confidence == 40 + sc.search * 10
                                + TechWordCount(query_lower) * 10
                                + (IF has_language THEN 20 ELSE 0)
       IN Min2(80, base_confidence)

\* the filters the chain sets: days = 30 in the trending branch
BranchFilters(sc) ==
  IF ResolveIntent(sc) = TRENDING
  THEN Entry("days", 30)
  ELSE EmptyDict

\* +0.1 for a detected language or project type
Bonus(detected) == IF detected # None THEN 10 ELSE 0

\* parse_query(query) of a QueryParser whose vocabulary sets iterate in the
\* orders langs and types.  raises: int() raised ValueError and there is no
\* result; otherwise value is the dictionary returned and locals the scores.
parse_query(query, langs, types) ==
  LET query_lower == Strip(Lower(query))
      start       == InitialResult(query)
      numbers     == FirstNumber(query_lower)
  IN IF numbers # "" /\ IntRaises(numbers)
     THEN [ raises |-> TRUE, value |-> start,
            locals |-> NoLocals ]
     ELSE
       LET loop == PatternLoop(query_lower, 1)
           sc   == FinalScores(query_lower, numbers, loop.bonus)
           base == BaseConfidence(sc, query_lower, start.language)
           detected_language == _extract_language(query_lower, langs)
           detected_type     == _extract_project_type(query_lower, types)
       IN [ raises |-> FALSE,
            value  |->
              [ intent         |-> ResolveIntent(sc),
                language       |-> detected_language,
                project_type   |-> detected_type,
                sort_by        |-> start.sort_by,
                limit          |-> IF numbers # "" THEN LimitOf(numbers)
                                   ELSE start.limit,
                repositories   |-> loop.groups,
                filters        |-> Update(BranchFilters(sc),
                                          _extract_filters(query_lower)),
                original_query |-> query,
                confidence     |-> base + Bonus(detected_language)
                                        + Bonus(detected_type) ],
            locals |-> [ranking |-> sc.ranking, comparison |-> sc.comparison,
                        trending |-> sc.trending, search |-> sc.search,
                        matched |-> loop.matched, base |-> base] ]

\* ------------------------------------------ validate_query and suggestions

\* a validation whose confidence threshold is inclusive
validate_queryInclusive(parsed_query) ==
  IF parsed_query.intent = UNKNOWN THEN FALSE
  ELSE IF parsed_query.intent = COMPARISON
       THEN Len(parsed_query.repositories) >= 1
  ELSE IF parsed_query.intent \in {RANKING, TRENDING}
       THEN \/ parsed_query.language # None
            \/ parsed_query.project_type # None
            \/ parsed_query.confidence >= 60
  ELSE TRUE

\* a validation of ranking and trending queries that does not look at the
\* confidence
validate_queryContextOnly(parsed_query) ==
  IF parsed_query.intent = UNKNOWN THEN FALSE
  ELSE IF parsed_query.intent = COMPARISON
       THEN Len(parsed_query.repositories) >= 1
  ELSE IF parsed_query.intent \in {RANKING, TRENDING}
       THEN \/ parsed_query.language # None
            \/ parsed_query.project_type # None
  ELSE TRUE

validate_query(parsed_query) ==
  IF parsed_query.intent = UNKNOWN THEN FALSE
  ELSE IF parsed_query.intent = COMPARISON
       THEN Len(parsed_query.repositories) >= 1
  ELSE IF parsed_query.intent \in {RANKING, TRENDING}
       THEN \/ parsed_query.language # None
            \/ parsed_query.project_type # None
            \/ parsed_query.confidence > 60
  ELSE TRUE

BeMoreSpecific == "Could you be more specific about what you're looking for?"

WhichLanguage == "Which programming language are you interested in?"

WhichRepositories == "Which repositories would you like to compare?"

PleaseRephrase ==
  "I'm not sure I understood correctly. Could you rephrase your question?"

\* `not parsed_query['language']`: None and the empty string are falsy
Falsy(v) == v = None \/ v = ""

\* clarifications chained with elif: the first prompt that is due, alone
get_suggested_clarificationsFirstOnly(parsed_query) ==
  IF ~validate_query(parsed_query) THEN <<BeMoreSpecific>>
  ELSE IF parsed_query.intent = RANKING /\ Falsy(parsed_query.language)
       THEN <<WhichLanguage>>
  ELSE IF /\ parsed_query.intent = COMPARISON
          /\ Len(parsed_query.repositories) < 2
       THEN <<WhichRepositories>>
  ELSE IF parsed_query.confidence < 50 THEN <<PleaseRephrase>>
  ELSE <<>>

get_suggested_clarifications(parsed_query) ==
  (IF ~validate_query(parsed_query) THEN <<BeMoreSpecific>> ELSE <<>>)
  \o (IF parsed_query.intent = RANKING /\ Falsy(parsed_query.language)
      THEN <<WhichLanguage>> ELSE <<>>)
  \o (IF /\ parsed_query.intent = COMPARISON
         /\ Len(parsed_query.repositories) < 2
      THEN <<WhichRepositories>> ELSE <<>>)
  \o (IF parsed_query.confidence < 50 THEN <<PleaseRephrase>> ELSE <<>>)

\* ------------------------------------------------------------ the inputs

\* the most words a generated query has
MaxWords == 3

\* the most comparison clauses (connective and name) a generated
\* comparison query has
MaxClauses == 2

\* s repeated k times
RECURSIVE Repeat(_, _)
Repeat(s, k) ==
  IF k = 0 THEN ""
  ELSE IF k % 2 = 0
       THEN LET h == Repeat(s, k \div 2) IN h \o h
       ELSE s \o Repeat(s, k - 1)

\* a numeral one digit longer than int() converts
LongNumeral == Repeat("1", IntMaxStrDigits + 1)

\* words joined by single spaces
RECURSIVE Join(_)
Join(ws) ==
  IF Len(ws) = 0 THEN ""
  ELSE IF Len(ws) = 1 THEN ws[1]
  ELSE ws[1] \o " " \o Join(Tail(ws))

\* the sequences of at most n words over vocab
RECURSIVE WordSeqs(_, _)
WordSeqs(vocab, n) ==
  IF n = 0 THEN {<<>>}
  ELSE LET shorter == WordSeqs(vocab, n - 1)
       IN shorter \cup {Append(ws, w) : ws \in shorter, w \in vocab}

Words == {"better", "top", "popular", "hot", "find", "and", "Python", "tools"}

\* the queries of the repository's tests and documentation, and the
\* edge cases of the specification
Examples ==
  { "", "   ", "!!!",
    "top 5 most starred Python projects",
    "show me the top 10 JavaScript frameworks",
    "best Python libraries",
    "most popular web frameworks",
    "5 most starred repositories",
    "top 10 most starred Python web frameworks",
    "compare React vs Vue",
    "React versus Angular comparison",
    "difference between Django and Flask",
    "how does TensorFlow compare to PyTorch",
    "which is better Django or FastAPI",
    "compare React vs Vue.js",
    "compare React.js vs Vue.js!!!",
    "compare React",
    "trending Python projects",
    "hot JavaScript projects",
    "rising machine learning projects",
    "trending Python projects this week",
    "trending",
    "find machine learning libraries",
    "show me some Python projects",
    "search for web development tools",
    "any good data visualization packages",
    "show me stuff",
    "what about projects",
    "TOP 5 PYTHON WEB FRAMEWORKS",
    "JS frameworks",
    "node packages",
    "c++ libraries",
    "top 0 python projects",
    "react-vs-vue",
    "top " \o LongNumeral }

Queries == {Join(ws) : ws \in WordSeqs(Words, MaxWords)} \cup Examples

Leads == {"", "compare ", "between "}

Connectives == {"vs", "and", "or", "to"}

Names == {"react", "Vue.js"}

\* the texts of at most n clauses: " connective name"
RECURSIVE Clauses(_)
Clauses(n) ==
  IF n = 0 THEN {""}
  ELSE LET shorter == Clauses(n - 1)
       IN shorter \cup {t \o " " \o c \o " " \o x :
                          t \in shorter, c \in Connectives, x \in Names}

\* [compare|between] name (connective name)*
ComparisonQueries ==
  {l \o x \o t : l \in Leads, x \in Names, t \in Clauses(MaxClauses)}
  \cup {"compare React vs Vue.js", "compare React.js vs Vue.js!!!",
        "compare\nreact and Vue.js", "react  with\tVue.js",
        "react versus Vue.js", "which is better Django or FastAPI",
        "compare React", "best Python libraries"}

\* ------------------------------------------------------------- the state

VARIABLES
  programming_languages,  \* QueryParser.programming_languages, as it iterates
  project_types,          \* QueryParser.project_types, as it iterates
  pc,                     \* where the caller of the parser stands
  query,                  \* the query text of the call
  result,                 \* parsed_query: what parse_query returned
  locals,                 \* the scores parse_query computed
  valid,                  \* what validate_query returned
  suggestions,            \* what get_suggested_clarifications returned
  context,                \* GitHubAnalysisAgent.context
  served,                 \* the process_query calls started so far
  provider_calls,         \* calls of the current process_query call to
                          \* GitHubRepositoryTool
  response_calls,         \* its calls to LLMProvider.generate_response
  ret,                    \* what the last process_query call returned
  returned,               \* what the parser returned to its caller for each
                          \* query the first time, and whether it was
                          \* called with the query again
  service,                \* the requests of the current call of
                          \* OpenAIQueryParser.parse_query to the OpenAI
                          \* client, and the reply it got
  entry_context,          \* GitHubAnalysisAgent.context as it was when the
                          \* current process_query call started
  frames,                 \* the calls in progress on the one QueryParser,
                          \* one frame of local variables for each caller
  tool                    \* GitHubRepositoryTool: its cache, the clock, the
                          \* network, and the call in progress

parser_vars == << programming_languages, project_types >>

agent_vars == << context, served, provider_calls, response_calls, ret,
                entry_context >>

vars == << programming_languages, project_types, pc, query, result, locals,
           valid, suggestions, context, served, provider_calls,
           response_calls, ret, returned, service, entry_context,
           frames, tool >>

RECURSIVE Reverse(_)
Reverse(seq) ==
  IF Len(seq) = 0 THEN <<>> ELSE Append(Reverse(Tail(seq)), Head(seq))

\* seq from its k-th element on, followed by its first k - 1 elements
Rotate(seq, k) == SubSeq(seq, k, Len(seq)) \o SubSeq(seq, 1, k - 1)

\* Python iterates a set of strings in an order that depends on the hash
\* seed of the process: three of the orders of the two vocabulary sets
VocabularyOrders ==
  { <<LanguageList, ProjectTypeList>>,
    <<Reverse(LanguageList), Reverse(ProjectTypeList)>>,
    <<Rotate(LanguageList, 30), Rotate(ProjectTypeList, 6)>> }

\* ConversationContext()
NewContext ==
  [ last_query           |-> None,
    last_intent          |-> None,
    last_language        |-> None,
    conversation_history |-> <<>> ]

\* no process_query call has returned yet
NoReturn == [success |-> FALSE, suggestions |-> <<>>, intent |-> None]

\* no request has been made
NoService == [requests |-> <<>>, reply |-> <<>>, got |-> FALSE]

\* GitHubRepositoryTool: its constants and its state

\* self._cache_timeout, in seconds
CacheTimeout == 300

\* max_retries
MaxRetries == 3

\* time.sleep(2) between two attempts
RetrySleep == 2

\* the least wait after a rate-limited response: max(reset_time - now, 60)
RateLimitWait == 60

\* the clock value up to which calls of the tool start
MaxClock == 600

\* the most calls of _make_request from outside in a run
MaxRequests == 2

\* the most calls of the public methods of the tool in a run
MaxToolCalls == 1

\* the repositories asked for, as owner/name
Repos == {"django/django", "pallets/flask"}

\* the JSON bodies of successful responses
Bodies == {"v1"}

\* what requests.get gives: a RequestException (timeout, no connection), a
\* response whose raise_for_status raises HTTPError (a RequestException), a
\* response rejected for the rate limit (status 403, 'rate limit' in the
\* text), one of those with an x-ratelimit-reset header that is no number,
\* or a successful response with a JSON body.  A successful response whose
\* body is no JSON makes response.json() raise
\* requests.exceptions.JSONDecodeError, a RequestException as well, and is
\* counted with error_status.
Responses ==
  { [kind |-> "raises", body |-> None],
    [kind |-> "error_status", body |-> None],
    [kind |-> "limited", body |-> None],
    [kind |-> "limited_bad_reset", body |-> None] }
  \cup { [kind |-> "ok", body |-> b] : b \in Bodies }

\* cache_key: the endpoint and json.dumps(params)
CacheKey(endpoint, params) == << endpoint, params >>

\* the parameters of the commits and issues requests hold
\* datetime.now().isoformat(), which differs from reading to reading; n
\* counts the readings
Since(n) == "since " \o ToString(n)

\* the stats dictionary _get_repository_statistics starts from
NoStats ==
  [ recent_commits |-> 0, recent_issues |-> 0, contributors_count |-> 0 ]

\* no data
NoData == [body |-> None, extended |-> FALSE, stats |-> NoStats]

\* response.json() of a body, as _make_request returns and stores it; stats
\* are the statistics get_repository_details adds to the dictionary
Json(body) == [body |-> body, extended |-> FALSE, stats |-> NoStats]

\* len(data) of the list in a body
Count(body) == IF body = "v1" THEN 1 ELSE 0

\* data.get("items", [])
Items(data) == IF data.body = "v1" THEN <<"flask">> ELSE <<>>

\* the method that returned last: what it raised, or what it returned
\* (is_none: it returned None)
NoOutcome ==
  [method |-> None, raised |-> None, is_none |-> FALSE, value |-> << >>]

\* GitHubRepositoryTool(): an empty cache; around it the clock, the
\* readings of datetime.now(), the calls so far, and the call in progress
\* (fetched: the repositories of the call whose repos/<owner>/<repo>
\* request returned data)
NewTool ==
  [ cache       |-> << >>,
    now         |-> 0,
    readings    |-> 0,
    calls       |-> 0,
    at          |-> "idle",
    method      |-> None,
    args        |-> << >>,
    index       |-> 0,
    stage       |-> None,
    key         |-> << >>,
    attempt     |-> 0,
    http        |-> 0,
    failed      |-> 0,
    entry_age   |-> -1,
    entry_cache |-> << >>,
    outcome     |-> None,
    data        |-> NoData,
    held        |-> << >>,
    stats       |-> NoStats,
    comparison_data |-> << >>,
    fetched     |-> {},
    out         |-> NoOutcome ]

\* the callers that share the one QueryParser
Callers == {"a", "b"}

\* the most calls of parse_query a caller makes
MaxCallerCalls == 1

\* the frame of a caller that is in no call: where the caller stands, the
\* argument and the local variables of its parse_query call (result,
\* scores), what that call returned (ret), what validate_query and
\* get_suggested_clarifications returned, and the vocabulary of the parser
\* as it was when the call started (seen)
IdleFrame ==
  [ at          |-> "idle",
    calls       |-> 0,
    query       |-> "",
    result      |-> InitialResult(""),
    scores      |-> NoLocals,
    ret         |-> InitialResult(""),
    valid       |-> FALSE,
    suggestions |-> << >>,
    seen        |-> << << >>, << >> >> ]

\* no call is in progress on the parser
NoFrames == [c \in Callers |-> IdleFrame]

\* the parser has not been called
NoneReturned == [q \in {} |-> NoLocals]

\* QueryParser.__init__ and, around it, GitHubAnalysisAgent.__init__
Init ==
  /\ \E o \in VocabularyOrders :
       /\ programming_languages = o[1]
       /\ project_types = o[2]
  /\ pc = "idle"
  /\ query = ""
  /\ result = InitialResult("")
  /\ locals = NoLocals
  /\ valid = FALSE
  /\ suggestions = <<>>
  /\ context = NewContext
  /\ served = 0
  /\ provider_calls = 0
  /\ response_calls = 0
  /\ ret = NoReturn
  /\ returned = NoneReturned
  /\ service = NoService
  /\ entry_context = NewContext
  /\ frames = NoFrames
  /\ tool = NewTool

\* the entry of returned for a query parsed once more: the first result
\* stays, and again says that there was a later call
Recorded(q, r, log) ==
  IF r.raises THEN log
  ELSE IF q \in DOMAIN log THEN [log EXCEPT ![q].again = TRUE]
  ELSE (q :> [value |-> r.value, locals |-> r.locals, again |-> FALSE])
       @@ log

\* a parser that keeps the language of the call before when the query
\* names none
ParseQueryKeepingLanguage(q) ==
  /\ pc = "idle"
  /\ \E r \in {parse_query(q, programming_languages, project_types)} :
       /\ pc' = IF r.raises THEN "raised" ELSE "parsed"
       /\ result' = IF r.value.language = None
                    THEN [r.value EXCEPT !.language = result.language]
                    ELSE r.value
       /\ locals' = r.locals
       /\ returned' = Recorded(q, r, returned)
  /\ query' = q
  /\ UNCHANGED << parser_vars, frames, tool, service, valid, suggestions, agent_vars >>

\* result = parser.parse_query(q)
ParseQuery(q) ==
  /\ pc = "idle"
  /\ \E r \in {parse_query(q, programming_languages, project_types)} :
       /\ pc' = IF r.raises THEN "raised" ELSE "parsed"
       /\ result' = r.value
       /\ locals' = r.locals
       /\ returned' = Recorded(q, r, returned)
  /\ query' = q
  /\ UNCHANGED << parser_vars, frames, tool, service, valid, suggestions, agent_vars >>

\* parser.validate_query(result)
ValidateQuery ==
  /\ pc = "parsed"
  /\ valid' = validate_query(result)
  /\ pc' = "validated"
  /\ UNCHANGED << parser_vars, frames, tool, returned, service, query, result, locals, suggestions,
                  agent_vars >>

\* parser.get_suggested_clarifications(result)
GetSuggestedClarifications ==
  /\ pc = "validated"
  /\ suggestions' = get_suggested_clarifications(result)
  /\ pc' = "suggested"
  /\ UNCHANGED << parser_vars, frames, tool, returned, service, query, result, locals, valid, agent_vars >>

Next ==
  \/ \E q \in Queries : ParseQuery(q)
  \/ ValidateQuery
  \/ GetSuggestedClarifications

\* one parser, called with a query of Queries
Spec == Init /\ [][Next]_vars

NextComparison ==
  \/ \E q \in ComparisonQueries : ParseQuery(q)
  \/ ValidateQuery
  \/ GetSuggestedClarifications

\* one parser, called with a comparison query
SpecComparison == Init /\ [][NextComparison]_vars

\* ------------------------------------------ one parser, several calls

\* the most different queries one parser is called with
MaxRemembered == 2

\* queries with several vocabulary languages, several project-type words,
\* and neither
RepeatQueries ==
  { "react vue js frameworks", "app application", "trending",
    "top 5 python tools", "compare React vs Vue.js", "find stuff" }

\* the caller is done with a result and goes on to its next call
NextCall ==
  /\ pc = "parsed"
  /\ pc' = "idle"
  /\ UNCHANGED << parser_vars, frames, tool, returned, service, query, result, locals, valid,
                  suggestions, agent_vars >>

NextRepeat ==
  \/ \E q \in RepeatQueries :
       /\ q \in DOMAIN returned \/ Cardinality(DOMAIN returned) < MaxRemembered
       /\ ParseQuery(q)
  \/ NextCall

\* one parser, called again and again
SpecRepeat == Init /\ [][NextRepeat]_vars

\* ------------------------------------- a query and the query extended

\* the most words of a generated base query
MaxBaseWords == 2

BaseWords == {"find", "top", "react", "vs", "vue", "and"}

\* the queries that get a token added
BaseQueries ==
  {Join(ws) : ws \in WordSeqs(BaseWords, MaxBaseWords)}
  \cup { "find web api testing and", "react vs vue", "trending",
         "compare react and", "top 5 python tools", "best libraries",
         "c language", "c language api", "hot recent" }

\* recognized tokens: languages, an alias, project types
Tokens == {"python", "js", "tools", "framework"}

\* ws with tok put in after its first pos words
InsertAt(ws, tok, pos) ==
  SubSeq(ws, 1, pos) \o <<tok>> \o SubSeq(ws, pos + 1, Len(ws))

\* the queries that are q with one token added at a word position
Extensions(q) ==
  { Join(InsertAt(SplitFrom(q, 1), tok, pos)) :
      tok \in Tokens, pos \in 0..Len(SplitFrom(q, 1)) }

NextExtend ==
  \/ \E q \in BaseQueries : returned = NoneReturned /\ ParseQuery(q)
  \/ NextCall
  \/ \E q0 \in DOMAIN returned :
       /\ Cardinality(DOMAIN returned) = 1
       /\ \E q \in Extensions(q0) : ParseQuery(q)

\* one parser, called with a query and then with the query extended by a
\* token
SpecExtend == Init /\ [][NextExtend]_vars

\* --------------------------------------- OpenAIQueryParser.parse_query

\* lines of a reply: JSON objects, JSON values that are no objects, text
\* that is no JSON, and the fences of a markdown code block
ObjectRanking == "{\"intent\": \"ranking\", \"language\": \"python\", \"limit\": 5}"

ObjectBogusIntent == "{\"intent\": \"bogus\"}"

ObjectEmpty == "{}"

ObjectNullIntent == "{\"intent\": null}"

ObjectTrueIntent == "{\"intent\": true}"

\* the Python value True that json.loads gives for true; like None it is
\* no string
JsonTrue == "<True>"

JsonList == "[1]"

JsonNull == "null"

Prose == "Sure! Here is the JSON"

\* the three backquotes that open and close a markdown code block are
\* written <fence>
FenceClose == "<fence>"

FenceOpen == FenceClose \o "json"

\* the JSON documents among the lines, and the value json.loads gives
JsonValues ==
  (ObjectRanking :> [object |-> TRUE,
                     value  |-> [intent |-> "ranking", language |-> "python",
                                 limit |-> 5]])
  @@ (ObjectBogusIntent :> [object |-> TRUE, value |-> [intent |-> "bogus"]])
  @@ (ObjectEmpty :> [object |-> TRUE, value |-> EmptyDict])
  @@ (ObjectNullIntent :> [object |-> TRUE, value |-> [intent |-> None]])
  @@ (ObjectTrueIntent :> [object |-> TRUE, value |-> [intent |-> JsonTrue]])
  @@ (JsonList :> [object |-> FALSE, value |-> <<1>>])
  @@ (JsonNull :> [object |-> FALSE, value |-> None])

\* message.content of the replies of the service: None is no string
Replies ==
  { None,
    <<ObjectRanking>>, <<ObjectBogusIntent>>, <<ObjectEmpty>>,
    <<ObjectNullIntent>>, <<ObjectTrueIntent>>,
    <<FenceOpen, ObjectRanking, FenceClose>>,
    <<FenceOpen, ObjectRanking>>,
    <<Prose, ObjectRanking>>, <<Prose>>, <<>>,
    <<JsonList>>, <<JsonNull>>, <<FenceOpen, JsonList, FenceClose>> }

\* a text that starts with a code fence loses its first and its last line:
\* lines[1:-1]
Unfenced(lines) ==
  IF Len(lines) > 0 /\ LitAt(lines[1], FenceClose, 1)
  THEN SubSeq(lines, 2, Len(lines) - 1)
  ELSE lines

\* json.loads of the lines joined: a JSONDecodeError unless the text is one
\* JSON document
JsonDecodes(lines) == Len(lines) = 1 /\ lines[1] \in DOMAIN JsonValues

\* the defaults of the fields a reply leaves out
Defaults(q) ==
  [ intent          |-> UNKNOWN,
    language        |-> None,
    project_type    |-> None,
    sort_by         |-> "stars",
    limit           |-> 20,
    repositories    |-> <<>>,
    domain_keywords |-> <<>>,
    filters         |-> EmptyDict,
    original_query  |-> q,
    confidence      |-> 90 ]

\* isinstance(v, str)
IsStr(v) == v \notin {None, JsonTrue}

\* the reply object with the defaults filled in and the intent, if it is a
\* string, converted to the enumeration: QueryIntent(v), Unknown when that
\* raises ValueError.  An intent that is no string stays as it is.
Filled(obj, q) ==
  LET all == obj @@ Defaults(q)
  IN [all EXCEPT !.intent = IF ~IsStr(all.intent) THEN all.intent
                            ELSE IF all.intent \in QueryIntent THEN all.intent
                            ELSE UNKNOWN]

OpenAIQueries ==
  { "top 5 python tools", "react vue js frameworks", "trending", "",
    "top " \o LongNumeral }

\* OpenAIQueryParser.parse_query(q) up to the first request
OpenAIParseQuery(q) ==
  /\ pc = "idle"
  /\ pc' = "o_gpt5"
  /\ query' = q
  /\ service' = NoService
  /\ UNCHANGED << parser_vars, frames, tool, returned, result, locals, valid, suggestions,
                  agent_vars >>

\* client.chat.completions.create(model="gpt-5", ...): a reply or an
\* exception
RequestGpt5 ==
  /\ pc = "o_gpt5"
  /\ \E raised \in BOOLEAN :
       /\ service' = [service EXCEPT
            !.requests = Append(@, [model |-> "gpt-5", raised |-> raised])]
       /\ pc' = IF raised THEN "o_gpt4o" ELSE "o_reply"
  /\ UNCHANGED << parser_vars, frames, tool, returned, query, result, locals, valid,
                  suggestions, agent_vars >>

\* the except branch: client.chat.completions.create(model="gpt-4o", ...)
RequestGpt4o ==
  /\ pc = "o_gpt4o"
  /\ \E raised \in BOOLEAN :
       /\ service' = [service EXCEPT
            !.requests = Append(@, [model |-> "gpt-4o", raised |-> raised])]
       /\ pc' = IF raised THEN "o_fallback" ELSE "o_reply"
  /\ UNCHANGED << parser_vars, frames, tool, returned, query, result, locals, valid,
                  suggestions, agent_vars >>

\* the reply is read: content.strip(), the fences, json.loads, the
\* defaults; the result is returned or the parser falls back
ReadReply ==
  /\ pc = "o_reply"
  /\ \E content \in Replies :
       /\ service' = [service EXCEPT !.reply = content, !.got = TRUE]
       /\ IF content = None
          THEN pc' = "o_fallback" /\ UNCHANGED result
          ELSE IF ~JsonDecodes(Unfenced(content))
          THEN pc' = "o_fallback" /\ UNCHANGED result
          ELSE IF ~JsonValues[Unfenced(content)[1]].object
          THEN pc' = "o_fallback" /\ UNCHANGED result
          ELSE /\ pc' = "parsed"
               /\ result' =
                    Filled(JsonValues[Unfenced(content)[1]].value, query)
  /\ UNCHANGED << parser_vars, frames, tool, returned, query, locals, valid, suggestions,
                  agent_vars >>

\* _fallback_parse: QueryParser().parse_query(query), in the same process
FallbackParse ==
  /\ pc = "o_fallback"
  /\ \E r \in {parse_query(query, programming_languages, project_types)} :
       /\ pc' = IF r.raises THEN "raised" ELSE "parsed"
       /\ result' = r.value
       /\ locals' = r.locals
  /\ UNCHANGED << parser_vars, frames, tool, returned, service, query, valid, suggestions,
                  agent_vars >>

NextOpenAI ==
  \/ \E q \in OpenAIQueries : OpenAIParseQuery(q)
  \/ RequestGpt5
  \/ RequestGpt4o
  \/ ReadReply
  \/ FallbackParse

\* one call of OpenAIQueryParser.parse_query
SpecOpenAI == Init /\ [][NextOpenAI]_vars

\* ------------------------------------------- queries naming languages

\* the most words of a generated language query
MaxLanguageWords == 2

\* languages, aliases, ecosystem keywords, and words that contain one
LanguageWords ==
  {"pipeline", "good", "go", "c", "c++", "language", "JS", "node"}

LanguageQueries ==
  {Join(ws) : ws \in WordSeqs(LanguageWords, MaxLanguageWords)}
  \cup { "c programming", "c++ libraries", "C++11 libraries", "my c code",
         "JS frameworks", "node packages", "TypeScript projects",
         "rails and maven", "django or flask", "r packages", "c# tools",
         "objective-c apps", "Python machine learning", "gradle plugins",
         "recent", "most recent c projects", "gemstone", "pip", "pip JS",
         "ts", "CPP", "Ts and cpp", "react vue js", "npm react" }

NextLanguage == \E q \in LanguageQueries : ParseQuery(q)

\* one parser, called with a query that names languages
SpecLanguage == Init /\ [][NextLanguage]_vars

\* --------------------------------------- queries naming project types

\* the most words of a generated project-type query
MaxTypeWords == 2

TypeWords == {"frameworks", "libraries", "tools", "app", "application", "find"}

LoneTypeWords ==
  { "framework", "library", "tool", "package", "packages", "module",
    "modules", "plugin", "plugins", "extension", "extensions", "sdk", "api",
    "service", "services", "rapid prototyping", "happy",
    "any good data visualization packages", "find machine learning libraries" }

TypeQueries ==
  {Join(ws) : ws \in WordSeqs(TypeWords, MaxTypeWords)} \cup LoneTypeWords

NextType == \E q \in TypeQueries : ParseQuery(q)

\* one parser, called with a query that names project types
SpecType == Init /\ [][NextType]_vars

\* ------------------------------------------------ queries with filters

\* the most phrases of a generated filter query
MaxPhrases == 2

Phrases ==
  { "trending", "top", "this year", "this month", "this week", "recent",
    "very active", "high activity", "active", "small", "large" }

FilterQueries ==
  {Join(ws) : ws \in WordSeqs(Phrases, MaxPhrases)}
  \cup { "trending Python projects this week",
         "recent this week this month this year",
         "this week recent this month",
         "trending very active small large projects",
         "compare react vs vue high activity large small",
         "recently updated", "interactive smaller enlarged" }

NextFilter == \E q \in FilterQueries : ParseQuery(q)

\* one parser, called with a query with filter phrases
SpecFilter == Init /\ [][NextFilter]_vars

\* ------------------------------------- validation of any parsed query

\* the most entries of repositories in a parsed query given to
\* validate_query
MaxRepositories == 2

RepositoryLists ==
  {[k \in 1..n |-> "react"] : n \in 0..MaxRepositories}

\* confidences around the thresholds of the code, in hundredths
ConfidenceLevels == {0, 30, 49, 50, 59, 60, 61, 90, 110}

\* the ParsedQuery structures a caller may hand to validate_query
ParsedQueries ==
  { [ InitialResult("q") EXCEPT !.intent = i, !.language = l,
                                !.project_type = t, !.repositories = r,
                                !.confidence = c ] :
      i \in QueryIntent, l \in {None, "python"}, t \in {None, "tool"},
      r \in RepositoryLists, c \in ConfidenceLevels }

InitParsed ==
  /\ \E o \in VocabularyOrders :
       /\ programming_languages = o[1]
       /\ project_types = o[2]
  /\ pc = "parsed"
  /\ query = "q"
  /\ result \in ParsedQueries
  /\ locals = NoLocals
  /\ valid = FALSE
  /\ suggestions = <<>>
  /\ context = NewContext
  /\ served = 0
  /\ provider_calls = 0
  /\ response_calls = 0
  /\ ret = NoReturn
  /\ returned = NoneReturned
  /\ service = NoService
  /\ entry_context = NewContext
  /\ frames = NoFrames
  /\ tool = NewTool

NextValidate == ValidateQuery \/ GetSuggestedClarifications

\* validate_query and get_suggested_clarifications on any parsed query
SpecValidate == InitParsed /\ [][NextValidate]_vars

\* ----------------------------------- GitHubAnalysisAgent.process_query

\* the most process_query calls of a run
MaxCalls == 2

AgentQueries ==
  { "top 5 Python frameworks", "trending", "compare React vs Vue.js",
    "compare React", "find machine learning libraries",
    "top " \o LongNumeral }

\* the dictionary of the except branch
ErrorReturn == [success |-> FALSE, suggestions |-> <<>>, intent |-> "error"]

\* the try block up to the first call: parsed_query = parse_query(user_query)
ProcessQuery(user_query) ==
  /\ pc = "idle"
  /\ served < MaxCalls
  /\ \E r \in {parse_query(user_query, programming_languages, project_types)} :
       /\ result' = r.value
       /\ locals' = r.locals
       /\ pc' = IF r.raises THEN "idle" ELSE "a_validate"
       /\ ret' = IF r.raises THEN ErrorReturn ELSE NoReturn
  /\ query' = user_query
  /\ served' = served + 1
  /\ provider_calls' = 0
  /\ response_calls' = 0
  /\ valid' = FALSE
  /\ suggestions' = <<>>
  /\ entry_context' = context
  /\ UNCHANGED << parser_vars, frames, tool, returned, service, context >>

\* a validation step that goes on to the analysis whatever validate_query
\* returns
AgentValidateNoReturn ==
  /\ pc = "a_validate"
  /\ valid' = validate_query(result)
  /\ context' = [ context EXCEPT !.last_query = query,
                                 !.last_intent = result.intent,
                                 !.last_language = result.language ]
  /\ pc' = "a_analysis"
  /\ UNCHANGED << parser_vars, frames, tool, returned, service, query, result, locals, served, provider_calls,
                  response_calls, suggestions, ret, entry_context >>

\* validate_query, and then either the return with the suggestions or the
\* update of the context
AgentValidate ==
  /\ pc = "a_validate"
  /\ valid' = validate_query(result)
  /\ IF ~validate_query(result)
     THEN /\ suggestions' = get_suggested_clarifications(result)
          /\ ret' = [ success     |-> FALSE,
                      suggestions |-> get_suggested_clarifications(result),
                      intent      |-> result.intent ]
          /\ pc' = "idle"
          /\ UNCHANGED context
     ELSE /\ context' = [ context EXCEPT !.last_query = query,
                                         !.last_intent = result.intent,
                                         !.last_language = result.language ]
          /\ pc' = "a_analysis"
          /\ UNCHANGED << suggestions, ret >>
  /\ UNCHANGED << parser_vars, frames, tool, returned, service, query, result, locals, served, provider_calls,
                  response_calls, entry_context >>

RECURSIVE SearchesFor(_, _)
\* the repositories of a comparison that are looked up by a search: those
\* not given as owner/name
SearchesFor(repositories, k) ==
  IF k > Len(repositories) THEN 0
  ELSE (IF Contains(repositories[k], "/") THEN 0 ELSE 1)
       + SearchesFor(repositories, k + 1)

\* the calls to GitHubRepositoryTool that _execute_analysis makes for
\* parsed_query when none raises; found: the searches return a repository
PlannedCalls(parsed_query, found) ==
  IF parsed_query.intent = COMPARISON
  THEN LET searches == SearchesFor(parsed_query.repositories, 1)
           compared == IF found THEN Len(parsed_query.repositories)
                       ELSE Len(parsed_query.repositories) - searches
       IN searches + (IF compared > 0 THEN 1 ELSE 0)
  ELSE IF parsed_query.intent \in {RANKING, TRENDING, SEARCH} THEN 1
  ELSE 0

\* analysis_result = await self._execute_analysis(parsed_query); the
\* raise_at-th call to the tool raises (0: none does)
AgentExecuteAnalysis ==
  /\ pc = "a_analysis"
  /\ \E found \in BOOLEAN :
       \E raise_at \in 0..PlannedCalls(result, found) :
         /\ provider_calls' = IF raise_at = 0
                              THEN PlannedCalls(result, found)
                              ELSE raise_at
         /\ pc' = IF raise_at = 0 THEN "a_response" ELSE "idle"
         /\ ret' = IF raise_at = 0 THEN ret ELSE ErrorReturn
  /\ UNCHANGED << parser_vars, frames, tool, returned, service, query, result, locals, valid, suggestions,
                  context, served, response_calls, entry_context >>

\* response = await self._generate_response(...), the history entry and
\* the return; ok: the response generation raises nothing
AgentGenerateResponse ==
  /\ pc = "a_response"
  /\ response_calls' = response_calls + 1
  /\ \E ok \in BOOLEAN :
       IF ok
       THEN /\ context' =
                 [ context EXCEPT !.conversation_history =
                     Append(@, [ query    |-> query,
                                 response |-> "response",
                                 intent   |-> result.intent ]) ]
            /\ ret' = [ success     |-> TRUE,
                        suggestions |-> <<>>,
                        intent      |-> result.intent ]
       ELSE /\ ret' = ErrorReturn
            /\ UNCHANGED context
  /\ pc' = "idle"
  /\ UNCHANGED << parser_vars, frames, tool, returned, service, query, result, locals, valid, suggestions,
                  served, provider_calls, entry_context >>

NextAgent ==
  \/ \E q \in AgentQueries : ProcessQuery(q)
  \/ AgentValidate
  \/ AgentExecuteAnalysis
  \/ AgentGenerateResponse

\* an agent with the rule-based parser, serving process_query calls one
\* after the other
SpecAgent == Init /\ [][NextAgent]_vars

\* ------------------------------------------------ GitHubRepositoryTool

\* time.time() - timestamp of the entry of key, -1 without an entry
Age(t, key) ==
  IF key \in DOMAIN t.cache THEN t.now - t.cache[key].timestamp ELSE -1

\* _make_request(endpoint, params) up to the retry loop: the cache check
Enter(t, key) ==
  LET call == [t EXCEPT !.key = key, !.attempt = 0, !.http = 0,
                        !.failed = 0, !.entry_age = Age(t, key),
                        !.entry_cache = t.cache,
                        !.outcome = None, !.data = NoData]
  IN IF key \in DOMAIN t.cache
     THEN IF t.now - t.cache[key].timestamp < CacheTimeout
          THEN [call EXCEPT !.at = "returned", !.outcome = "data",
                            !.data = t.cache[key].data]
          ELSE [call EXCEPT !.at = "get"]
     ELSE [call EXCEPT !.at = "get"]

\* the except branch with a loop that goes round once more
FailedOnceMore(t) ==
  IF t.attempt < MaxRetries
  THEN [t EXCEPT !.failed = @ + 1, !.attempt = @ + 1,
                 !.now = @ + RetrySleep, !.at = "get"]
  ELSE [t EXCEPT !.failed = @ + 1, !.at = "returned",
                 !.outcome = "GitHubAPIError"]

\* the except branch of the loop: sleep and go round again, or leave the
\* loop and raise GitHubAPIError
Failed(t) ==
  IF t.attempt < MaxRetries - 1
  THEN [t EXCEPT !.failed = @ + 1, !.attempt = @ + 1,
                 !.now = @ + RetrySleep, !.at = "get"]
  ELSE [t EXCEPT !.failed = @ + 1, !.at = "returned",
                 !.outcome = "GitHubAPIError"]

\* response.raise_for_status(), response.json(), the cache entry and the
\* return
Finish(t, r) ==
  IF r.kind = "ok"
  THEN [t EXCEPT !.cache = (t.key :> [data |-> Json(r.body),
                                      timestamp |-> t.now]) @@ t.cache,
                 !.at = "returned", !.outcome = "data",
                 !.data = Json(r.body)]
  ELSE Failed(t)

\* one requests.get, with response r, and what follows it up to the next
\* request or the end of the call.  At "get" it is the first request of an
\* attempt; at "wait" it is the request after time.sleep(wait_time).
Step(t, r) ==
  IF t.at = "get"
  THEN LET sent == [t EXCEPT !.http = @ + 1]
       IN IF r.kind = "raises" THEN Failed(sent)
          ELSE IF r.kind = "limited" THEN [sent EXCEPT !.at = "wait"]
          ELSE IF r.kind = "limited_bad_reset"
               THEN [sent EXCEPT !.at = "returned", !.outcome = "ValueError"]
          ELSE Finish(sent, r)
  ELSE LET sent == [t EXCEPT !.http = @ + 1, !.now = @ + RateLimitWait]
       IN IF r.kind = "raises" THEN Failed(sent) ELSE Finish(sent, r)

\* requests.get of an attempt
Get ==
  /\ tool.at = "get"
  /\ \E r \in Responses : tool' = Step(tool, r)
  /\ UNCHANGED << parser_vars, frames, returned, service, pc, query, result,
                  locals, valid, suggestions, agent_vars >>

\* time.sleep(wait_time) and the second requests.get of the attempt
GetAgain ==
  /\ tool.at = "wait"
  /\ \E r \in Responses : tool' = Step(tool, r)
  /\ UNCHANGED << parser_vars, frames, returned, service, pc, query, result,
                  locals, valid, suggestions, agent_vars >>

\* the requests of a _make_request call, answered by the responses of plan
\* one after the other
RECURSIVE Run(_, _)
Run(t, plan) ==
  IF t.at \notin {"get", "wait"} \/ plan = << >> THEN t
  ELSE Run(Step(t, Head(plan)), Tail(plan))

\* the responses of the network to the requests of one _make_request call
\* made by a public method: the first request succeeds; every attempt
\* fails, the first after a wait for the rate limit; the first response
\* has a reset header that is no number
Plans ==
  { << [kind |-> "ok", body |-> "v1"] >>,
    << [kind |-> "limited", body |-> None],
       [kind |-> "error_status", body |-> None],
       [kind |-> "raises", body |-> None],
       [kind |-> "raises", body |-> None] >>,
    << [kind |-> "limited_bad_reset", body |-> None] >> }

\* the retry loop of a _make_request call made by a public method
Request ==
  /\ tool.at = "get"
  /\ \E plan \in Plans :
       /\ Run(tool, plan).at = "returned"
       /\ tool' = Run(tool, plan)
  /\ UNCHANGED << parser_vars, frames, returned, service, pc, query, result,
                  locals, valid, suggestions, agent_vars >>

\* a method of the tool is called
Called(t, method, args) ==
  [t EXCEPT !.calls = @ + 1, !.method = method, !.args = args,
            !.index = 0, !.stage = None, !.held = << >>,
            !.stats = NoStats,
            !.comparison_data = << >>, !.fetched = {},
            !.out = NoOutcome]

\* the tool is idle and may be called again
CanCall(most) == tool.at = "idle" /\ tool.calls < most /\ tool.now <= MaxClock

\* the method returns value
Returns(t, value) ==
  [t EXCEPT !.at = "idle",
            !.out = [method |-> t.method, raised |-> None,
                     is_none |-> FALSE, value |-> value]]

\* the method returns None
ReturnsNone(t) ==
  [t EXCEPT !.at = "idle",
            !.out = [method |-> t.method, raised |-> None,
                     is_none |-> TRUE, value |-> << >>]]

\* the method raises
Raises(t, exception) ==
  [t EXCEPT !.at = "idle",
            !.out = [method |-> t.method, raised |-> exception,
                     is_none |-> FALSE, value |-> << >>]]

\* tool._make_request(endpoint, params), called from outside
MakeRequest(key) ==
  /\ CanCall(MaxRequests)
  /\ tool' = Enter(Called(tool, "_make_request", << key >>), key)
  /\ UNCHANGED << parser_vars, frames, returned, service, pc, query, result,
                  locals, valid, suggestions, agent_vars >>

\* ... and its return to that caller
MakeRequestReturn ==
  /\ tool.at = "returned"
  /\ tool.method = "_make_request"
  /\ tool' = IF tool.outcome = "data"
             THEN Returns(tool, tool.data)
             ELSE Raises(tool, tool.outcome)
  /\ UNCHANGED << parser_vars, frames, returned, service, pc, query, result,
                  locals, valid, suggestions, agent_vars >>

\* time passes between two calls
Elapse(seconds) ==
  /\ tool.at = "idle"
  /\ tool.now + seconds <= MaxClock
  /\ tool' = [tool EXCEPT !.now = @ + seconds]
  /\ UNCHANGED << parser_vars, frames, returned, service, pc, query, result,
                  locals, valid, suggestions, agent_vars >>

\* _get_mock_repositories(language, query), by the names of the
\* repositories
MockRepositories(language) ==
  IF language = "python" THEN <<"django", "flask", "fastapi">>
  ELSE IF language = "javascript" THEN <<"react", "vue", "angular">>
  ELSE <<"awesome-project", "demo-repo">>

\* is_framework: one of the keywords occurs in the description or the name
\* of the repository; of the mock repositories only angular has none
IsFramework(name) == name # "angular"

\* the filter loop of get_language_frameworks
RECURSIVE FilterLoop(_, _, _, _)
FilterLoop(repositories, k, filtered_repos, limit) ==
  IF k > Len(repositories) THEN filtered_repos
  ELSE LET kept == IF \/ IsFramework(repositories[k])
                      \/ Len(filtered_repos) < limit \div 2
                   THEN Append(filtered_repos, repositories[k])
                   ELSE filtered_repos
       IN IF Len(kept) >= limit THEN kept
          ELSE FilterLoop(repositories, k + 1, kept, limit)

\* filtered_repos[:limit]
FilteredFrameworks(repositories, limit) ==
  SubSeq(FilterLoop(repositories, 1, << >>, limit), 1,
         Min2(limit, Len(FilterLoop(repositories, 1, << >>, limit))))

\* the languages and limits the searches are called with
Languages == {None, "python", "javascript"}

Limits == {0, 3, 10}

\* search_repositories(query, language, ...), called from outside, by
\* find_trending_repositories or by get_language_frameworks (limit counts
\* for the last only)
SearchRepositories(method, language, limit) ==
  /\ CanCall(MaxToolCalls)
  /\ tool' = Enter(Called(tool, method, << language, limit >>),
                   CacheKey("search/repositories",
                            << method, language, limit >>))
  /\ UNCHANGED << parser_vars, frames, returned, service, pc, query, result,
                  locals, valid, suggestions, agent_vars >>

\* search_repositories without the except branch of lines 153-159
SearchResultItemsOnly(t) == Items(t.data)

\* what search_repositories returns after its _make_request call: the
\* items, or the mock data when GitHubAPIError was raised
SearchResult(t) ==
  IF t.outcome = "data" THEN Items(t.data) ELSE MockRepositories(t.args[1])

\* the return of search_repositories and of its caller
SearchReturn ==
  /\ tool.at = "returned"
  /\ tool.method \in {"search_repositories", "find_trending_repositories",
                      "get_language_frameworks"}
  /\ tool' =
       IF tool.outcome \notin {"data", "GitHubAPIError"}
       THEN Raises(tool, tool.outcome)
       ELSE IF tool.method = "get_language_frameworks"
       THEN Returns(tool, FilteredFrameworks(SearchResult(tool), tool.args[2]))
       ELSE Returns(tool, SearchResult(tool))
  /\ UNCHANGED << parser_vars, frames, returned, service, pc, query, result,
                  locals, valid, suggestions, agent_vars >>

\* the lists of repositories compare_repositories is called with
RepoLists ==
  {<< r >> : r \in Repos} \cup {<< r, s >> : r \in Repos, s \in Repos}

\* get_repository_details(owner, repo) up to its first request, for the
\* index-th repository of the call
DetailsOf(t, index) ==
  Enter([t EXCEPT !.index = index, !.stage = "main", !.held = << >>,
                  !.stats = NoStats],
        CacheKey("repos/" \o t.args[index], ""))

\* tool.get_repository_details(owner, repo)
GetRepositoryDetails(repo) ==
  /\ CanCall(MaxToolCalls)
  /\ tool' = DetailsOf(Called(tool, "get_repository_details", << repo >>), 1)
  /\ UNCHANGED << parser_vars, frames, returned, service, pc, query, result,
                  locals, valid, suggestions, agent_vars >>

\* tool.compare_repositories(repos)
CompareRepositories(repos) ==
  /\ CanCall(MaxToolCalls)
  /\ tool' = DetailsOf(Called(tool, "compare_repositories", repos), 1)
  /\ UNCHANGED << parser_vars, frames, returned, service, pc, query, result,
                  locals, valid, suggestions, agent_vars >>

\* get_repository_details has returned repo_data (found) or None: it
\* returns to its caller, or compare_repositories goes on with its loop
DetailsDone(t, found, repo_data) ==
  IF t.method = "get_repository_details"
  THEN IF found THEN Returns(t, repo_data) ELSE ReturnsNone(t)
  ELSE LET comparison_data ==
             IF found
             THEN (t.args[t.index] :> repo_data.stats) @@ t.comparison_data
             ELSE t.comparison_data
           next == [t EXCEPT !.comparison_data = comparison_data]
       IN IF t.index < Len(t.args)
          THEN DetailsOf(next, t.index + 1)
          ELSE Returns(next, comparison_data)

\* data.update(stats) and return data: data is the dictionary that
\* _make_request returned and that the cache holds under the key held
StatsDone(t) ==
  LET data == [t.cache[t.held].data EXCEPT !.extended = TRUE,
                                          !.stats = t.stats]
  IN DetailsDone([t EXCEPT !.cache[t.held].data = data], TRUE, data)

\* the request of _get_repository_statistics that follows stage
StatsRequest(t, stage) ==
  LET endpoint == "repos/" \o t.args[t.index] \o "/" \o stage
  IN IF stage = "contributors"
     THEN Enter([t EXCEPT !.stage = stage], CacheKey(endpoint, "per_page 100"))
     ELSE Enter([t EXCEPT !.stage = stage],
                CacheKey(endpoint, Since(t.readings)))

\* get_repository_details and _get_repository_statistics after each of
\* their _make_request calls
DetailsStep ==
  /\ tool.at = "returned"
  /\ tool.method \in {"get_repository_details", "compare_repositories"}
  /\ tool' =
       IF tool.outcome \notin {"data", "GitHubAPIError"}
       THEN Raises(tool, tool.outcome)
       ELSE IF tool.stage = "main"
       THEN IF tool.outcome = "GitHubAPIError"
            THEN DetailsDone(tool, FALSE, NoData)
            ELSE StatsRequest([tool EXCEPT !.held = tool.key,
                                           !.fetched =
                                             @ \cup {tool.args[tool.index]},
                                           !.readings = @ + 1], "commits")
       ELSE IF tool.outcome = "GitHubAPIError" THEN StatsDone(tool)
       ELSE IF tool.stage = "commits"
       THEN StatsRequest([tool EXCEPT !.stats.recent_commits =
                                        Count(tool.data.body)], "issues")
       ELSE IF tool.stage = "issues"
       THEN StatsRequest([tool EXCEPT !.stats.recent_issues =
                                        Count(tool.data.body)], "contributors")
       ELSE StatsDone([tool EXCEPT !.stats.contributors_count =
                                     Count(tool.data.body)])
  /\ UNCHANGED << parser_vars, frames, returned, service, pc, query, result,
                  locals, valid, suggestions, agent_vars >>

\* the keys _make_request is called with from outside
RequestKeys ==
  { CacheKey("repos/" \o r, "") : r \in Repos }

\* the seconds that pass between calls
Pauses == {299, 300}

NextRequest ==
  \/ \E key \in RequestKeys : MakeRequest(key)
  \/ MakeRequestReturn
  \/ Get
  \/ GetAgain
  \/ \E seconds \in Pauses : Elapse(seconds)

\* one GitHubRepositoryTool, its _make_request called from outside
SpecRequest == Init /\ [][NextRequest]_vars

NextTool ==
  \/ \E language \in Languages :
       \/ SearchRepositories("search_repositories", language, 20)
       \/ SearchRepositories("find_trending_repositories", language, 20)
       \/ \E limit \in Limits :
            SearchRepositories("get_language_frameworks", language, limit)
  \/ SearchReturn
  \/ \E repo \in Repos : GetRepositoryDetails(repo)
  \/ \E repos \in RepoLists : CompareRepositories(repos)
  \/ DetailsStep
  \/ Request

\* one GitHubRepositoryTool, its methods called one after the other
SpecTool == Init /\ [][NextTool]_vars

\* ------------------------------ one parser, calls of several callers

\* the queries of the callers: one of every intent, and one with several
\* vocabulary languages
CallerQueries ==
  { "top 5 python tools", "compare React vs Vue.js", "trending",
    "find stuff", "react vue js frameworks" }

\* a parser that keeps result and the scores on the instance: one place for
\* the calls of all callers
FrameOnInstance(c) == "a"

\* result, query_words and the scores are local variables of parse_query:
\* they live in the frame of the call
FrameOf(c) == c

\* parse_query(q) is called by c: query_lower and the result structure
EnterParse(c, q) ==
  /\ frames[c].at = "idle"
  /\ frames[c].calls < MaxCallerCalls
  /\ frames' = [frames EXCEPT
                  ![FrameOf(c)].result = InitialResult(q),
                  ![FrameOf(c)].scores = NoLocals,
                  ![c].at = "scores",
                  ![c].calls = @ + 1,
                  ![c].query = q,
                  ![c].valid = FALSE,
                  ![c].suggestions = << >>,
                  ![c].seen = << programming_languages, project_types >>]
  /\ UNCHANGED << parser_vars, tool, returned, service, pc, query, result,
                  locals, valid, suggestions, agent_vars >>

\* the keyword scores, the number and the limit, the comparison indicators
\* and the loop over the comparison patterns
ScoresStep(c) ==
  /\ frames[c].at = "scores"
  /\ LET query_lower == Strip(Lower(frames[c].query))
         numbers     == FirstNumber(query_lower)
         loop        == PatternLoop(query_lower, 1)
         sc          == FinalScores(query_lower, numbers, loop.bonus)
         work        == frames[FrameOf(c)]
     IN frames' =
          IF numbers # "" /\ IntRaises(numbers)
          THEN [frames EXCEPT ![c].at = "raised"]
          ELSE [frames EXCEPT
                  ![FrameOf(c)].result =
                    [work.result EXCEPT
                       !.limit = IF numbers # "" THEN LimitOf(numbers) ELSE @,
                       !.repositories = loop.groups],
                  ![FrameOf(c)].scores =
                    [ranking |-> sc.ranking, comparison |-> sc.comparison,
                     trending |-> sc.trending, search |-> sc.search,
                     matched |-> loop.matched, base |-> 0],
                  ![c].at = "intent"]
  /\ UNCHANGED << parser_vars, tool, returned, service, pc, query, result,
                  locals, valid, suggestions, agent_vars >>

\* the if/elif chain: intent, confidence and the days filter
IntentStep(c) ==
  /\ frames[c].at = "intent"
  /\ LET work == frames[FrameOf(c)]
         sc   == work.scores
         base == BaseConfidence(sc, Strip(Lower(frames[c].query)),
                                work.result.language)
     IN frames' = [frames EXCEPT
                     ![FrameOf(c)].result =
                       [work.result EXCEPT
                          !.intent = ResolveIntent(sc),
                          !.confidence = base,
                          !.filters = Update(@, BranchFilters(sc))],
                     ![FrameOf(c)].scores.base = base,
                     ![c].at = "language"]
  /\ UNCHANGED << parser_vars, tool, returned, service, pc, query, result,
                  locals, valid, suggestions, agent_vars >>

\* detected_language = self._extract_language(query_lower)
LanguageStep(c) ==
  /\ frames[c].at = "language"
  /\ LET work == frames[FrameOf(c)]
         detected_language ==
           _extract_language(Strip(Lower(frames[c].query)),
                             programming_languages)
     IN frames' = [frames EXCEPT
                     ![FrameOf(c)].result =
                       [work.result EXCEPT
                          !.language = detected_language,
                          !.confidence = @ + Bonus(detected_language)],
                     ![c].at = "type"]
  /\ UNCHANGED << parser_vars, tool, returned, service, pc, query, result,
                  locals, valid, suggestions, agent_vars >>

\* detected_type = self._extract_project_type(query_lower)
TypeStep(c) ==
  /\ frames[c].at = "type"
  /\ LET work == frames[FrameOf(c)]
         detected_type ==
           _extract_project_type(Strip(Lower(frames[c].query)), project_types)
     IN frames' = [frames EXCEPT
                     ![FrameOf(c)].result =
                       [work.result EXCEPT
                          !.project_type = detected_type,
                          !.confidence = @ + Bonus(detected_type)],
                     ![c].at = "filters"]
  /\ UNCHANGED << parser_vars, tool, returned, service, pc, query, result,
                  locals, valid, suggestions, agent_vars >>

\* result['filters'].update(self._extract_filters(query_lower)) and
\* return result
FiltersStep(c) ==
  /\ frames[c].at = "filters"
  /\ LET work == frames[FrameOf(c)]
         done == [work.result EXCEPT
                    !.filters =
                      Update(@, _extract_filters(Strip(Lower(frames[c].query))))]
     IN frames' = [frames EXCEPT
                     ![FrameOf(c)].result = done,
                     ![c].ret = done,
                     ![c].at = "parsed"]
  /\ UNCHANGED << parser_vars, tool, returned, service, pc, query, result,
                  locals, valid, suggestions, agent_vars >>

\* c calls validate_query with the result it got
ValidateStep(c) ==
  /\ frames[c].at = "parsed"
  /\ frames' = [frames EXCEPT ![c].valid = validate_query(frames[c].ret),
                              ![c].at = "validated"]
  /\ UNCHANGED << parser_vars, tool, returned, service, pc, query, result,
                  locals, valid, suggestions, agent_vars >>

\* c calls get_suggested_clarifications with the result it got
SuggestStep(c) ==
  /\ frames[c].at = "validated"
  /\ frames' = [frames EXCEPT
                  ![c].suggestions = get_suggested_clarifications(frames[c].ret),
                  ![c].at = "suggested"]
  /\ UNCHANGED << parser_vars, tool, returned, service, pc, query, result,
                  locals, valid, suggestions, agent_vars >>

\* c is done with the result, or with the ValueError, and drops it
LeaveStep(c) ==
  /\ frames[c].at \in {"suggested", "raised"}
  /\ frames' = [frames EXCEPT
                  ![c] = [IdleFrame EXCEPT !.calls = frames[c].calls]]
  /\ UNCHANGED << parser_vars, tool, returned, service, pc, query, result,
                  locals, valid, suggestions, agent_vars >>

NextCallers ==
  \E c \in Callers :
    \/ \E q \in CallerQueries : EnterParse(c, q)
    \/ ScoresStep(c)
    \/ IntentStep(c)
    \/ LanguageStep(c)
    \/ TypeStep(c)
    \/ FiltersStep(c)
    \/ ValidateStep(c)
    \/ SuggestStep(c)
    \/ LeaveStep(c)

\* one parser, the steps of the calls of its callers in any order
SpecCallers == Init /\ [][NextCallers]_vars

\* ------------------------------------------------------------ properties

\* parse_query has just returned a result
Returned == pc = "parsed"

\* validate_query has returned
Validated == pc \in {"validated", "suggested"}

\* the text parse_query works on
QueryLower == Strip(Lower(query))

\* the query has a word of the ranking, comparison or trending keywords
HasIntentKeyword ==
  SplitSet(QueryLower)
    \cap (ranking_keywords \cup comparison_keywords \cup trending_keywords)
  # {}

\* the query has a decimal digit
HasNumber == \E i \in 1..Len(QueryLower) : IsDigitCh(Ch(QueryLower, i))

\* the comparison patterns that match the query
MatchingPatterns ==
  {k \in 1..Len(comparison_patterns) :
     PatternSearch(QueryLower, comparison_patterns[k]) # NoMatch}

\* the largest of the four scores
LargestScore ==
  CHOOSE m \in {locals.ranking, locals.comparison, locals.trending,
                locals.search} :
    /\ m >= locals.ranking
    /\ m >= locals.comparison
    /\ m >= locals.trending
    /\ m >= locals.search

\* C1: the confidence parse_query returns lies in [0.0, 1.0], also after
\* the language and the project-type bonus
C1_ConfidenceInUnitRange ==
  Returned => result.confidence >= 0 /\ result.confidence <= 100

\* C2: parse_query raises no exception, whatever the query, and the intent
\* it returns is Ranking, Comparison, Trending or Search, never Unknown
C2_ReturnsKnownIntent ==
  /\ pc # "raised"
  /\ Returned => result.intent \in {RANKING, COMPARISON, TRENDING, SEARCH}

\* C3: the intent is resolved from the four final scores: Search when the
\* largest is 0, else Comparison, Ranking, Trending in this order when the
\* score equals the largest, else Search
C3_IntentFromScores ==
  Returned =>
    result.intent =
      CASE LargestScore = 0 -> SEARCH
        [] LargestScore # 0 /\ locals.comparison = LargestScore -> COMPARISON
        [] /\ LargestScore # 0 /\ locals.comparison # LargestScore
           /\ locals.ranking = LargestScore -> RANKING
        [] /\ LargestScore # 0 /\ locals.comparison # LargestScore
           /\ locals.ranking # LargestScore
           /\ locals.trending = LargestScore -> TRENDING
        [] OTHER -> SEARCH

\* C3: a query whose comparison, ranking and trending scores tie above 0
\* has been parsed as a Comparison
C3_TieWitness ==
  /\ Returned
  /\ locals.comparison > 0
  /\ locals.comparison = locals.ranking
  /\ locals.ranking = locals.trending
  /\ result.intent = COMPARISON

\* C4 as stated: a query with no word of the ranking, comparison or
\* trending keywords and no number is classified as Search
C4_NoKeywordIsSearch ==
  Returned /\ ~HasIntentKeyword /\ ~HasNumber => result.intent = SEARCH

\* C4 as amended: a query with no word of the ranking, comparison or
\* trending keywords, no number, no vs/versus or compare ... and/with
\* indicator and no match of a comparison extraction pattern is classified
\* as Search
C4_NoSignalIsSearch ==
  /\ Returned
  /\ ~HasIntentKeyword
  /\ ~HasNumber
  /\ ~HasVersus(QueryLower)
  /\ ~HasCompareAnd(QueryLower)
  /\ MatchingPatterns = {}
  => result.intent = SEARCH

\* C4: a query with a search keyword, a language and a project type, and
\* no other signal, has been parsed as a Search
C4_SearchWitness ==
  /\ Returned
  /\ ~HasIntentKeyword
  /\ ~HasNumber
  /\ ~HasVersus(QueryLower)
  /\ ~HasCompareAnd(QueryLower)
  /\ MatchingPatterns = {}
  /\ locals.search > 0
  /\ result.language # None
  /\ result.project_type # None
  /\ result.intent = SEARCH

\* C5: the limit parse_query returns is an integer in [1, 50]
C5_LimitInRange ==
  Returned => result.limit >= 1 /\ result.limit <= 50

\* C6 as stated: without a number in the query the limit is 10, and 20
\* for a Search result
C6_DefaultLimitByIntent ==
  Returned /\ ~HasNumber =>
    result.limit = IF result.intent = SEARCH THEN 20 ELSE 10

\* C6 as amended: without a number in the query the limit is 20, whatever
\* the intent
C6_DefaultLimitTwenty ==
  Returned /\ ~HasNumber => result.limit = 20

\* C6: a Ranking result of a query without a number
C6_RankingWitness ==
  /\ Returned
  /\ ~HasNumber
  /\ result.intent = RANKING
  /\ result.limit = 20

\* what the keywords and the indicators give the comparison score
ComparisonScoreBeforeLoop ==
  Cardinality(SplitSet(QueryLower) \cap comparison_keywords)
    + (IF HasVersus(QueryLower) \/ HasCompareAnd(QueryLower) THEN 2 ELSE 0)

\* the first of the patterns hits, in the order of comparison_patterns
FirstOf(hits) == CHOOSE k \in hits : \A j \in hits : k <= j

\* C7: the comparison patterns are tried in their order; the first that
\* matches, and no later one, sets repositories to its two groups and adds
\* 1 to the comparison score, once; a match of "X vs Y" gives X and Y
C7_FirstPatternOnly ==
  Returned =>
    \A hits \in {MatchingPatterns} :
      /\ hits = {} =>
           /\ result.repositories = <<>>
           /\ locals.comparison = ComparisonScoreBeforeLoop
      /\ hits # {} =>
           /\ result.repositories =
                PatternSearch(QueryLower, comparison_patterns[FirstOf(hits)])
           /\ Len(result.repositories) = 2
           /\ locals.matched = FirstOf(hits)
           /\ locals.comparison = ComparisonScoreBeforeLoop + 1
      /\ query = "compare React vs Vue.js" =>
           result.repositories = <<"react", "vue">>
      /\ query = "react or Vue.js and react" =>
           result.repositories = <<"js", "react">>
      /\ query = "compare react to Vue.js" =>
           result.repositories = <<"react", "vue">>

\* C7: a query that several patterns match with different groups
C7_SeveralMatchWitness ==
  /\ Returned
  /\ Cardinality(MatchingPatterns) >= 2
  /\ \E k \in MatchingPatterns :
       PatternSearch(QueryLower, comparison_patterns[k]) # result.repositories
  /\ Len(result.repositories) = 2

\* C8: validate_query is false for Unknown; for Comparison true exactly
\* with at least one repository; for Ranking and Trending true exactly with
\* a language, a project type or a confidence above 0.6; for Search true
C8_ValidateByIntent ==
  Validated =>
    /\ result.intent = UNKNOWN => ~valid
    /\ result.intent = COMPARISON =>
         (valid <=> Len(result.repositories) >= 1)
    /\ result.intent \in {RANKING, TRENDING} =>
         (valid <=> \/ result.language # None
                    \/ result.project_type # None
                    \/ result.confidence > 60)
    /\ result.intent = SEARCH => valid

\* C8: a Trending query with neither language nor project type and a
\* confidence of exactly 0.6 has been found invalid
C8_ThresholdWitness ==
  /\ Validated
  /\ result.intent = TRENDING
  /\ result.language = None
  /\ result.project_type = None
  /\ result.confidence = 60
  /\ ~valid

\* the four prompts in the order of the code
Prompts == <<BeMoreSpecific, WhichLanguage, WhichRepositories, PleaseRephrase>>

\* when the k-th prompt is due
PromptDue(k) ==
  CASE k = 1 -> ~valid
    [] k = 2 -> result.intent = RANKING /\ result.language = None
    [] k = 3 -> result.intent = COMPARISON /\ Len(result.repositories) < 2
    [] k = 4 -> result.confidence < 50

\* C9: each of the four prompts is returned exactly when its own condition
\* holds, and the prompts returned stand in the order: be more specific,
\* which language, which repositories, rephrase
C9_IndependentPrompts ==
  pc = "suggested" =>
    /\ \A k \in 1..4 :
         PromptDue(k) <=> \E i \in 1..Len(suggestions) : suggestions[i] = Prompts[k]
    /\ \A i \in 1..Len(suggestions) : \E k \in 1..4 : suggestions[i] = Prompts[k]
    /\ \A i, j \in 1..Len(suggestions) :
         i < j =>
           \E k, l \in 1..4 :
             k < l /\ suggestions[i] = Prompts[k] /\ suggestions[j] = Prompts[l]

\* C9: a valid Comparison with exactly one repository has got the
\* repositories prompt, and only that
C9_OneRepositoryWitness ==
  /\ pc = "suggested"
  /\ result.intent = COMPARISON
  /\ Len(result.repositories) = 1
  /\ valid
  /\ suggestions = <<WhichRepositories>>

\* a process_query call has returned
CallReturned == pc = "idle" /\ served > 0

\* C10: the data provider is called only after validate_query has returned
\* true for the parsed query of the call; a call whose validation fails
\* returns success=False with the suggestions of the parser and makes no
\* call to the provider or to the response generation
C10_ProviderAfterValidation ==
  /\ provider_calls > 0 => valid /\ validate_query(result)
  /\ response_calls > 0 => valid /\ validate_query(result)
  /\ CallReturned /\ ret.intent # "error" /\ ~validate_query(result) =>
       /\ ret.success = FALSE
       /\ ret.suggestions = get_suggested_clarifications(result)
       /\ ret.intent = result.intent
       /\ provider_calls = 0
       /\ response_calls = 0

\* C10: after a call that reached the provider, a call whose validation
\* failed has returned the suggestions
C10_RejectedWitness ==
  /\ CallReturned
  /\ served = 2
  /\ Len(context.conversation_history) = 1
  /\ ~validate_query(result)
  /\ ret.success = FALSE
  /\ Len(ret.suggestions) > 0
  /\ provider_calls = 0

ExtendedReturned == Returned /\ Cardinality(DOMAIN returned) = 2

\* the token changed the intent to one whose base confidence is lower
LowersIntent(before) ==
  result.intent # before.value.intent /\ locals.base < before.locals.base

\* a comparison pattern matched before and none matches now
BreaksPattern(before) == before.locals.matched # 0 /\ locals.matched = 0

\* C12: adding one recognized language or project-type token to a query at
\* a word position does not lower the confidence, unless the token changes
\* the intent to one with a lower base confidence or breaks the comparison
\* pattern that matched
C12_TokenNeverLowersConfidence ==
  ExtendedReturned =>
    \A q0 \in DOMAIN returned \ {query} :
      /\ query \in Extensions(q0)
      /\ ~LowersIntent(returned[q0])
      /\ ~BreaksPattern(returned[q0])
      => result.confidence >= returned[q0].value.confidence

\* a call of OpenAIQueryParser.parse_query has ended
OpenAIEnded == pc \in {"parsed", "raised"} /\ service.requests # <<>>

\* both requests raised
BothRequestsRaised ==
  /\ Len(service.requests) = 2
  /\ service.requests[1].raised
  /\ service.requests[2].raised

\* the reply has no text, is no JSON document, or is no JSON object
ReplyUnusable ==
  /\ service.got
  /\ \/ service.reply = None
     \/ ~JsonDecodes(Unfenced(service.reply))
     \/ ~JsonValues[Unfenced(service.reply)[1]].object

\* the gpt-4o request is the second one, after a gpt-5 request that raised
Gpt4oOnlyAfterGpt5 ==
  \A i \in 1..Len(service.requests) :
    service.requests[i].model = "gpt-4o" =>
      /\ i = 2
      /\ service.requests[1] = [model |-> "gpt-5", raised |-> TRUE]

\* after a failure of the service the call ends as parse_query of the
\* rule-based parser does for the query
FallbackAsRuleBased ==
  OpenAIEnded /\ (BothRequestsRaised \/ ReplyUnusable) =>
    \E r \in {parse_query(query, programming_languages, project_types)} :
      /\ r.raises <=> pc = "raised"
      /\ ~r.raises => result = r.value

\* C13: when the service fails (both requests raise, or the reply is no
\* valid JSON or cannot be filled into the result), OpenAIQueryParser's
\* parse_query raises nothing and returns the result of the rule-based
\* parse_query for the query; gpt-4o is requested only after the gpt-5
\* request has raised
C13_SilentFallback ==
  /\ pc # "raised"
  /\ FallbackAsRuleBased
  /\ Gpt4oOnlyAfterGpt5

\* the ecosystem keywords and their languages
EcosystemLanguage ==
  [ node |-> "javascript", npm |-> "javascript", pip |-> "python",
    django |-> "python", flask |-> "python", gem |-> "ruby",
    rails |-> "ruby", maven |-> "java", gradle |-> "java" ]

\* the elements of a sequence
Range(seq) == {seq[i] : i \in 1..Len(seq)}

\* the vocabulary languages and aliases that stand in the query as a whole
\* word
WholeWordLanguages ==
  {l \in Range(LanguageList) : SearchWhole(QueryLower, l)}

\* the ecosystem keywords that stand in the query as a whole word
WholeWordEcosystem ==
  {w \in DOMAIN EcosystemLanguage : SearchWhole(QueryLower, w)}

\* C14: a language is reported only when a vocabulary language, an alias
\* or an ecosystem keyword stands in the query as a whole word, never for
\* one that is only part of a longer word
C14_LanguageOnlyFromWholeWord ==
  Returned /\ result.language # None =>
    WholeWordLanguages # {} \/ WholeWordEcosystem # {}

\* the query names no vocabulary language but c and c++, and no
\* ecosystem keyword
OnlyC ==
  /\ WholeWordLanguages \subseteq {"c", "c++"}
  /\ \A w \in DOMAIN EcosystemLanguage : ~Contains(QueryLower, w)

\* C15: with no other language in the query, a literal c++ gives the
\* language c++, "c language" or "c programming" gives c, and any other
\* standalone c gives no C language
C15_SingleLetterC ==
  Returned /\ OnlyC =>
    IF Contains(QueryLower, "c++") THEN result.language = "c++"
    ELSE IF HasCContext(QueryLower) THEN result.language = "c"
    ELSE result.language = None

\* what the vocabulary entries that match as whole words stand for; a
\* standalone c counts with its context only
DirectHits ==
  {CASE l = "js" -> "javascript" [] l = "ts" -> "typescript"
     [] l = "cpp" -> "c++" [] OTHER -> l :
     l \in {h \in WholeWordLanguages : Len(h) > 1 \/ h = "r"}}
  \cup (IF "c" \in WholeWordLanguages /\ HasCPlusPlus(QueryLower)
        THEN {"c++"}
        ELSE IF "c" \in WholeWordLanguages /\ HasCContext(QueryLower)
        THEN {"c"} ELSE {})

\* the languages of the ecosystem keywords that occur in the query
EcosystemHits ==
  {EcosystemLanguage[w] :
     w \in {k \in DOMAIN EcosystemLanguage : Contains(QueryLower, k)}}

\* C16: the language returned is canonical, never js, ts or cpp: a direct
\* language token gives its canonical name, an ecosystem keyword gives its
\* language only when no direct token is found; JS frameworks and node
\* packages both give javascript
C16_CanonicalLanguage ==
  Returned =>
    /\ result.language \notin {"js", "ts", "cpp"}
    /\ DirectHits # {} => result.language \in DirectHits
    /\ DirectHits = {} /\ EcosystemHits # {} =>
         result.language \in EcosystemHits
    /\ DirectHits = {} /\ EcosystemHits = {} => result.language = None
    /\ query \in {"JS frameworks", "node packages", "JS", "node"} =>
         result.language = "javascript"
    /\ query = "CPP" => result.language = "c++"
    /\ query = "ts" => result.language = "typescript"

\* C16: an alias and an ecosystem keyword of another language stand in one
\* query, and the alias has decided
C16_AliasBeforeEcosystemWitness ==
  /\ Returned
  /\ query = "pip JS"
  /\ result.language = "javascript"

\* the twelve singular forms
SingularForms ==
  { "framework", "library", "tool", "package", "module", "plugin",
    "extension", "sdk", "api", "service", "app", "application" }

\* the plurals of the vocabulary and their singulars
PluralForms ==
  [ frameworks |-> "framework", libraries |-> "library", tools |-> "tool",
    packages |-> "package", modules |-> "module", plugins |-> "plugin",
    extensions |-> "extension" ]

\* the singulars of the project-type words that occur in the query
TypeHits ==
  {IF w \in DOMAIN PluralForms THEN PluralForms[w] ELSE w :
     w \in {t \in Range(ProjectTypeList) : Contains(QueryLower, t)}}

\* C17: project_type is unset or one of the twelve singular forms; a
\* plural in the query yields the singular of a project-type word of the
\* query, never a plural or a truncated word
C17_SingularProjectType ==
  Returned =>
    /\ result.project_type \in SingularForms \cup {None}
    /\ TypeHits = {} => result.project_type = None
    /\ TypeHits # {} => result.project_type \in TypeHits
    /\ \A p \in DOMAIN PluralForms :
         QueryLower = p => result.project_type = PluralForms[p]

\* C17: the irregular plural has given its singular
C17_LibrariesWitness ==
  /\ Returned
  /\ Contains(QueryLower, "libraries")
  /\ result.project_type = "library"

\* the time-window phrases in their priority, and their days
TimePhrases ==
  << [phrase |-> "this year", days |-> 365],
     [phrase |-> "this month", days |-> 30],
     [phrase |-> "this week", days |-> 7],
     [phrase |-> "recent", days |-> 30] >>

\* the time-window phrases that occur in the query, by their priority
TimeHits ==
  {k \in 1..Len(TimePhrases) : Contains(QueryLower, TimePhrases[k].phrase)}

\* C18: the days filter is that of the first of 'this year', 'this month',
\* 'this week', 'recent' that occurs in the query, wherever it stands
C18_TimeWindowPriority ==
  Returned =>
    \A k \in TimeHits :
      (\A j \in TimeHits : k <= j) =>
        /\ "days" \in DOMAIN result.filters
        /\ result.filters["days"] = TimePhrases[k].days

\* C18: a query in which a phrase of lower priority stands before one of
\* higher priority
C18_LaterPhraseWinsWitness ==
  /\ Returned
  /\ query = "this week this year"
  /\ result.filters["days"] = 365

\* C19: a Trending result has days, the value of the time-window phrase of
\* the query or else 30; a result of another intent without a time-window
\* phrase has no days
C19_TrendingDefaultDays ==
  Returned =>
    /\ result.intent = TRENDING =>
         /\ "days" \in DOMAIN result.filters
         /\ TimeHits = {} => result.filters["days"] = 30
         /\ \A k \in TimeHits :
              (\A j \in TimeHits : k <= j) =>
                result.filters["days"] = TimePhrases[k].days
    /\ result.intent # TRENDING /\ TimeHits = {} =>
         "days" \notin DOMAIN result.filters
    /\ query = "trending Python projects this week" =>
         result.intent = TRENDING /\ result.filters["days"] = 7

\* C19: a Trending result whose days come from the phrase, not the default
C19_PhraseOverDefaultWitness ==
  /\ Returned
  /\ result.intent = TRENDING
  /\ Contains(QueryLower, "this week")
  /\ result.filters["days"] = 7

\* C20: min_stars is 100 with 'high activity' or 'very active', else 10
\* with 'active', else absent; max_size is 1000 with 'small', else min_size
\* is 10000 with 'large'; the two sizes are never both present; all this
\* whatever the intent
C20_ActivityAndSize ==
  Returned =>
    /\ IF \/ Contains(QueryLower, "high activity")
          \/ Contains(QueryLower, "very active")
       THEN /\ "min_stars" \in DOMAIN result.filters
            /\ result.filters["min_stars"] = 100
       ELSE IF Contains(QueryLower, "active")
       THEN /\ "min_stars" \in DOMAIN result.filters
            /\ result.filters["min_stars"] = 10
       ELSE "min_stars" \notin DOMAIN result.filters
    /\ IF Contains(QueryLower, "small")
       THEN /\ "max_size" \in DOMAIN result.filters
            /\ result.filters["max_size"] = 1000
            /\ "min_size" \notin DOMAIN result.filters
       ELSE IF Contains(QueryLower, "large")
       THEN /\ "min_size" \in DOMAIN result.filters
            /\ result.filters["min_size"] = 10000
            /\ "max_size" \notin DOMAIN result.filters
       ELSE DOMAIN result.filters \cap {"max_size", "min_size"} = {}

\* C20: a Comparison with 'high activity', 'large' and 'small'
C20_ComparisonWitness ==
  /\ Returned
  /\ result.intent = COMPARISON
  /\ Contains(QueryLower, "large")
  /\ result.filters["min_stars"] = 100
  /\ result.filters["max_size"] = 1000

\* C21: the confidence parse_query sets before the two bonuses is 0.3 when
\* all four scores are 0, min(0.9, 0.6 + 0.1*comparison_score) for
\* Comparison, min(0.9, 0.6 + 0.1*ranking_score) for Ranking and
\* min(0.8, 0.5 + 0.1*trending_score) for Trending; so every Ranking result
\* has confidence at least 0.7 and every Comparison result at least 0.6
C21_BaseConfidenceByIntent ==
  Returned =>
    /\ (locals.ranking = 0 /\ locals.comparison = 0 /\ locals.trending = 0
           /\ locals.search = 0
         => locals.base = 30)
    /\ (result.intent = COMPARISON
         => /\ locals.base = Min2(90, 60 + 10 * locals.comparison)
            /\ result.confidence >= 60)
    /\ (result.intent = RANKING
         => /\ locals.base = Min2(90, 60 + 10 * locals.ranking)
            /\ result.confidence >= 70)
    /\ (result.intent = TRENDING
         => locals.base = Min2(80, 50 + 10 * locals.trending))
    /\ result.confidence >= locals.base

\* C21: a Ranking result whose confidence is at the floor, 0.7
C21_FloorWitness ==
  /\ Returned
  /\ result.intent = RANKING
  /\ result.confidence = 70

\* C22: for a Search result of the else branch (the search score is the
\* strict winner) the confidence before the two bonuses and the cap of 0.8
\* is 0.4 + 0.1*search_score, plus 0.1 for each recognized technical term,
\* plus 0.2 whenever a language is detected in the query
C22_SearchBoostForLanguage ==
  Returned /\ result.intent = SEARCH /\ LargestScore > 0 =>
    locals.base = Min2(80, 40 + 10 * locals.search
                             + 10 * TechWordCount(QueryLower)
                             + (IF result.language # None THEN 20 ELSE 0))

\* C29: after parse_query repositories has no entry or exactly two, never
\* one; it has two whenever one of the comparison patterns matches the
\* query, whatever the intent
C29_NoneOrTwoRepositories ==
  Returned =>
    /\ Len(result.repositories) \in {0, 2}
    /\ (Len(result.repositories) = 2 <=> MatchingPatterns # {})

\* C29: a pattern matched and the intent is not Comparison
C29_FilledWithoutComparisonWitness ==
  /\ Returned
  /\ result.intent # COMPARISON
  /\ MatchingPatterns # {}
  /\ Len(result.repositories) = 2

ParsedQueryFields == DOMAIN InitialResult("")

\* C24: every result OpenAIQueryParser.parse_query returns, whatever JSON
\* the service replied with, has all the fields of a ParsedQuery and an
\* intent that is a member of QueryIntent; an intent that is missing, null,
\* no string or unrecognised becomes Unknown or leads to the fallback
C24_OpenAIResultShape ==
  OpenAIEnded /\ pc = "parsed" =>
    /\ ParsedQueryFields \subseteq DOMAIN result
    /\ result.intent \in QueryIntent

\* C28: a process_query call that returns success=False leaves the
\* conversation context as it was before the call; a call that returns
\* success=True appends exactly one entry to the history
C28_FailureLeavesContext ==
  CallReturned =>
    /\ ~ret.success => context = entry_context
    /\ ret.success =>
         Len(context.conversation_history)
           = Len(entry_context.conversation_history) + 1

\* a _make_request call has ended, by a return or by an exception
RequestEnded == tool.at = "returned"

\* the call found no usable entry in the cache and went into the retry loop
WentToNetwork == tool.entry_age \notin 0..(CacheTimeout - 1)

\* C25: _make_request makes at most 3 attempts, each with at most 2 HTTP
\* requests (the original and one after a rate-limit wait); when an attempt
\* succeeds every attempt before it has failed, the call ends there with
\* the data of that response, and GitHubAPIError is raised exactly when 3
\* attempts have ended in a request error.
C25_ThreeAttemptsThenError ==
  /\ tool.attempt < MaxRetries
  /\ tool.failed <= MaxRetries
  /\ tool.http <= 2 * (tool.attempt + 1)
  /\ tool.http <= 2 * MaxRetries
  /\ tool.at \in {"get", "wait"} => tool.failed = tool.attempt
  /\ tool.at = "wait" => tool.http > 0
  /\ RequestEnded =>
       /\ (tool.outcome = "GitHubAPIError") <=> (tool.failed = MaxRetries)
       /\ tool.outcome = "data" /\ WentToNetwork =>
            /\ tool.failed = tool.attempt
            /\ tool.http > tool.attempt
            /\ tool.data.body \in Bodies
            /\ tool.cache[tool.key].data = tool.data
       /\ tool.outcome = "data" /\ ~WentToNetwork => tool.http = 0

\* every attempt was rate limited, waited and failed again: GitHubAPIError
\* after 6 HTTP requests
C25_SixRequestsWitness ==
  /\ RequestEnded
  /\ tool.method = "_make_request"
  /\ tool.outcome = "GitHubAPIError"
  /\ tool.attempt = MaxRetries - 1
  /\ tool.http = 2 * MaxRetries

\* what _make_request does with the cache: an entry younger than 300
\* seconds is returned with no HTTP request and the cache left as it was;
\* an older one is not returned: the call goes to the network, and the
\* data it then returns is the entry it has just stored; a call that
\* raises leaves the cache as it found it
CacheCheckOfMakeRequest ==
  RequestEnded =>
    /\ tool.entry_age \in 0..(CacheTimeout - 1) =>
         /\ tool.http = 0
         /\ tool.outcome = "data"
         /\ tool.data = tool.entry_cache[tool.key].data
         /\ tool.cache = tool.entry_cache
    /\ WentToNetwork =>
         /\ tool.http > 0
         /\ tool.outcome = "data" =>
              /\ tool.cache[tool.key] =
                   [data |-> tool.data, timestamp |-> tool.now]
              /\ \A k \in DOMAIN tool.entry_cache \ {tool.key} :
                   tool.cache[k] = tool.entry_cache[k]
         /\ tool.outcome # "data" => tool.cache = tool.entry_cache

\* C26: the cache only ever holds data of successful responses, as
\* response.json() gave them.
C26_CacheHoldsResponsesOnly ==
  \A k \in DOMAIN tool.cache :
    tool.cache[k].data \in {Json(body) : body \in Bodies}

\* a public method of the tool has returned or raised
MethodEnded == tool.at = "idle" /\ tool.out.method # None

\* every retry of the last _make_request call of the method failed
EveryRetryFailed == tool.outcome = "GitHubAPIError"

\* the repositories of a list
Listed(repos) == {repos[i] : i \in 1..Len(repos)}

\* C27: GitHubAPIError never escapes the public methods.  When every retry
\* fails search_repositories and find_trending_repositories return the
\* non-empty mock list, get_language_frameworks returns what its filter
\* and its limit leave of the mock list (all of it when limit // 2 is at
\* least its length, nothing when limit is 0), get_repository_details
\* returns None, and the keys of what compare_repositories returns are
\* the requested repositories whose details were fetched.
C27_ErrorsBecomeFallbacks ==
  MethodEnded =>
    /\ tool.out.raised # "GitHubAPIError"
    /\ tool.out.method \in {"search_repositories",
                             "find_trending_repositories"}
         /\ EveryRetryFailed =>
           /\ tool.out.raised = None
           /\ tool.out.value = MockRepositories(tool.args[1])
           /\ Len(tool.out.value) > 0
    /\ tool.out.method = "get_language_frameworks" /\ EveryRetryFailed =>
         LET mock == MockRepositories(tool.args[1])
             limit == tool.args[2]
         IN /\ tool.out.raised = None
            /\ tool.out.value = FilteredFrameworks(mock, limit)
            /\ Len(tool.out.value) <= limit
            /\ Listed(tool.out.value) \subseteq Listed(mock)
            /\ limit \div 2 >= Len(mock) => tool.out.value = mock
            /\ limit = 0 => tool.out.value = << >>
    /\ tool.out.method = "get_repository_details" =>
         /\ tool.stage = "main" /\ EveryRetryFailed => tool.out.is_none
         /\ tool.out.is_none => tool.stage = "main" /\ EveryRetryFailed
    /\ tool.out.method = "compare_repositories" /\ tool.out.raised = None =>
         /\ DOMAIN tool.out.value = tool.fetched
         /\ tool.fetched \subseteq Listed(tool.args)

\* compare_repositories was called with two repositories and could fetch
\* one of them only
C27_OneOfTwoWitness ==
  /\ MethodEnded
  /\ tool.out.method = "compare_repositories"
  /\ tool.out.raised = None
  /\ Cardinality(Listed(tool.args)) = 2
  /\ Cardinality(DOMAIN tool.out.value) = 1
  /\ EveryRetryFailed

\* C27 as stated: when every retry fails get_language_frameworks, like
\* search_repositories and find_trending_repositories, returns the
\* non-empty mock list.
C27_MockListFromEverySearch ==
  /\ MethodEnded
  /\ tool.out.method \in {"search_repositories",
                           "find_trending_repositories",
                           "get_language_frameworks"}
  /\ EveryRetryFailed
  => /\ tool.out.value = MockRepositories(tool.args[1])
     /\ Len(tool.out.value) > 0

\* the caller holds a result of parse_query
HoldsResult(c) == frames[c].at \in {"parsed", "validated", "suggested"}

\* another caller is inside parse_query
OtherInside(c) ==
  \E d \in Callers \ {c} :
    frames[d].at \in {"scores", "intent", "language", "type", "filters"}

\* C23: calls interleaved from several callers on one QueryParser return
\* what the same calls return one after another: every result is the
\* result of parse_query for its query alone, validate_query and
\* get_suggested_clarifications answer for that result and leave it as it
\* was, and the vocabulary is as it was when the call started.
C23_InterleavedAsSequential ==
  \A c \in Callers :
    /\ frames[c].at # "idle" =>
         frames[c].seen = << programming_languages, project_types >>
    /\ frames[c].at = "raised" =>
         parse_query(frames[c].query, programming_languages,
                     project_types).raises
    /\ HoldsResult(c) =>
         LET alone == parse_query(frames[c].query, programming_languages,
                                  project_types)
         IN /\ ~alone.raises
            /\ frames[c].ret = alone.value
            /\ frames[FrameOf(c)].result = alone.value
    /\ frames[c].at \in {"validated", "suggested"} =>
         frames[c].valid = validate_query(frames[c].ret)
    /\ frames[c].at = "suggested" =>
         frames[c].suggestions = get_suggested_clarifications(frames[c].ret)

\* a caller got the result of a comparison query while the other caller
\* was inside parse_query with a different query
C23_InterleavedWitness ==
  \E c \in Callers :
    /\ frames[c].at = "parsed"
    /\ frames[c].ret.intent = COMPARISON
    /\ OtherInside(c)
    /\ \E d \in Callers \ {c} :
         /\ frames[d].query \notin {frames[c].query, ""}
         /\ frames[d].at \in {"language", "type", "filters"}

====
